---- MODULE Spec2Model ----
(***************************************************************************)
(* Resumable crawl orchestration of scopus-playwright.                     *)
(*                                                                         *)
(* The repository holds four download scripts of one shape and the         *)
(* LoginManager they share:                                                *)
(*   miscited_download.py              stage "miscited"                    *)
(*   citing_download.py                stage "citing"                      *)
(*   references_of_citing_download.py  stage "references"                  *)
(*   download_titles.py                stage "titles"                      *)
(*   login.py                          LoginManager                        *)
(* A behaviour is one process run of one script.  The scripts run on one   *)
(* asyncio event loop, so an action is the code between two suspension     *)
(* points (awaits) of a coroutine; what the remote side, the browser or    *)
(* the file system answers is chosen with \E.                              *)
(***************************************************************************)
EXTENDS Integers, Sequences, FiniteSets, TLC

\* ---------------------------------------------------------------- bounds
\* The non-blank unit keys (the pair (CitedEID, MiscitedEID), or the EID
\* alone) and the key of an input row whose EID field is empty.
Names == {"x", "y", "z"}
Blank == ""
\* csv.DictReader gives None for the EID of a row that is shorter than the
\* header.
None == "None"
\* What the EID field of an input row can hold.
Keys == Names \cup {Blank, None}
\* Longest discovered unit sequence: as many rows as there are names, so that
\* a list may name every key once or name a key several times.
MaxUnits == Cardinality(Names)
\* CHUNK_SIZE = 100 in the browser scripts (chunk_size = 100 in the title
\* script), scaled down so that a run has several chunks.
CHUNK_SIZE == 2
\* MAX_CONCURRENCY = 5 in the browser scripts (concurrency = 20 in the title
\* script).  The model runs the scripts under every ceiling 1..MaxCeiling,
\* so that both a full semaphore and overlapping workers are reached.
MaxCeiling == 2

BrowserStages == {"miscited", "citing", "references"}

\* Files of a unit's storage location: the directory itself, the two
\* markers and the fetched artifact <UnitKey>.csv.
Files == {"dir", "success.txt", "empty.txt", "csv"}

VARIABLES
    stage,        \* which script this process runs
    MAX_CONCURRENCY, \* the script's concurrency ceiling
    credentials,  \* whether SCOPUS_USERNAME and SCOPUS_PASSWORD are set
    input_present,\* whether the discovery root / input CSV exists
    eid_column,   \* whether the header of the input CSV has an EID column
    upstream,     \* EID column of the upstream rows, in iteration order
    short_row,    \* references script: the first upstream row that holds its EID
                  \* and lacks Title or Link, 0 when no row does
    all_pairs,    \* self.all_pairs / rows / self.citing_articles: discovered entries
    fs,           \* ledger: unit key -> files present in its storage location
    fs0,          \* the ledger when the process started (history)
    rpc,          \* position of run()
    chunk_start,  \* start_index of the chunk being processed (0-based, as in range)
    status_csv,   \* rows of status.csv, <<>> while it was never written
    nsnap,        \* number of times status.csv was written in this run (history)
    sem,          \* free permits of the asyncio.Semaphore
    tpc,          \* position of each entry's worker task
    page,         \* each task's page in the shared context: none / open /
                  \* login_page (open, on the login form) / closed
    res,          \* what the page action of each task reported (history)
    relogin_lock,       \* LoginManager.relogin_lock: the set of its holders
    last_relogin_time,  \* LoginManager.last_relogin_time
    now,                \* time.time()
    lpc,                \* position of each caller inside relogin_and_reload_cookies
    cookie_file,        \* whether cookies.json exists
    cookie_list,        \* whether cookies.json holds a list of cookies that
                        \* load_cookies_to_session can load
    playwright_cookies, \* LoginManager.playwright_cookies: 0 is [], k the bundle of
                        \* the k-th login that captured cookies
    attempt,            \* title script: the attempt of each worker's retry loop
    last_status,        \* title script: last_status of each worker: "None", "403",
                        \* "200", "404", or "other" for every other status code
    response,           \* title script: response.status_code of the request of the
                        \* attempt that each worker is in, "none" while and when
                        \* the request gave no response (history)
    output_data_dict,   \* title script: self.output_data_dict, EID -> Title
    dict_order,         \* title script: the keys "" and None of output_data_dict,
                        \* in the order in which they were inserted
    output_file,        \* title script: eid_with_titles.csv as it is read back, EID
                        \* field -> Title of the last row with that EID field
    output_shadowed     \* title script: the Title of the row with an empty EID
                        \* field that a later such row of the file follows

inputvars == <<stage, MAX_CONCURRENCY, credentials, input_present, eid_column, upstream,
              short_row, fs0>>
runvars == <<rpc, chunk_start, status_csv, nsnap>>
taskvars == <<sem, tpc, page, res>>
lmvars == <<relogin_lock, last_relogin_time, now, lpc, cookie_file, cookie_list,
            playwright_cookies>>
filevars == <<output_data_dict, dict_order, output_file, output_shadowed>>
titlevars == <<attempt, last_status, response, filevars>>
vars == <<inputvars, all_pairs, fs, runvars, taskvars, lmvars, titlevars>>

N == Len(all_pairs)
Entries == 1..N

\* The keys that the rows of a list name.
Named(u) == {u[i] : i \in 1..Len(u)}

\* ---------------------------------------------------------------- ledger
HasMarker_success_only(files) == "success.txt" \in files
HasMarker(files) == "success.txt" \in files \/ "empty.txt" \in files

\* generate_status_csv's per-unit mapping.
outcome_of_no_empty(files) ==
    IF "dir" \notin files THEN "not_started"
    ELSE IF "success.txt" \in files THEN "success"
    ELSE "fail"
outcome_of_unmarked_not_started(files) ==
    IF "success.txt" \in files THEN "success"
    ELSE IF "empty.txt" \in files THEN "empty"
    ELSE "not_started"
outcome_of_empty_first(files) ==
    IF "dir" \notin files THEN "not_started"
    ELSE IF "empty.txt" \in files THEN "empty"
    ELSE IF "success.txt" \in files THEN "success"
    ELSE "fail"
outcome_of(files) ==
    IF "dir" \notin files THEN "not_started"
    ELSE IF "success.txt" \in files THEN "success"
    ELSE IF "empty.txt" \in files THEN "empty"
    ELSE "fail"

\* rows_status: one row per entry of the discovered list, in list order.
rows_status ==
    [i \in Entries |-> <<all_pairs[i], outcome_of(fs[all_pairs[i]])>>]

\* The loop of generate_status_csv over the entries: "Path(DOWNLOADS_DIR) /
\* eid" of the miscited script raises TypeError for a row without EID (the
\* other two scripts have no such entry on their list).
generate_status_csv_raises == stage = "miscited" /\ None \in Named(all_pairs)

\* generate_status_csv: status.csv is opened with "w" and rewritten in full,
\* after the loop over the entries; when the loop raises nothing is written.
generate_status_csv ==
    IF generate_status_csv_raises
    THEN UNCHANGED <<status_csv, nsnap>>
    ELSE /\ status_csv' = rows_status
         /\ nsnap' = nsnap + 1

\* "async with sem": the task goes on at once unless no permit is free.
sem_never_locked == FALSE
sem_locked == sem = 0

\* ------------------------------------------------- title script: worker
\* range(1, 6): the attempts of async_fetch_title.
MaxAttempts == 5

\* The worker returns (eid, title); async with sem releases the permit and
\* the locals of the coroutine are gone.
fetch_return(i, title) ==
    /\ tpc' = [tpc EXCEPT ![i] = "done"]
    /\ res' = [res EXCEPT ![i] = title]
    /\ sem' = sem + 1
    /\ attempt' = [attempt EXCEPT ![i] = 0]
    /\ last_status' = [last_status EXCEPT ![i] = "None"]
    /\ response' = [response EXCEPT ![i] = "none"]
    /\ UNCHANGED <<runvars, page>>

\* The code after the loop: "404 Not Found" if last_status is 404, else
\* "Error".
exhausted_title(status) == IF status = "404" THEN "404 Not Found" ELSE "Error"

\* The next turn of the retry loop, or the code after the loop once the
\* attempts are used up.
next_attempt(i) ==
    IF attempt[i] < MaxAttempts
    THEN /\ attempt' = [attempt EXCEPT ![i] = @ + 1]
         /\ response' = [response EXCEPT ![i] = "none"]
         /\ tpc' = [tpc EXCEPT ![i] = "fetch"]
         /\ UNCHANGED <<runvars, sem, page, res, last_status>>
    ELSE fetch_return(i, exhausted_title(last_status[i]))

\* ---------------------------------------------------------- LoginManager
\* Callers of relogin_and_reload_cookies: 0 is run() (login_and_get_context),
\* i > 0 the worker task of entry i.
Callers == 0..MaxUnits

\* relogin_cooldown=30.0 seconds (login.py), and the clock of the model:
\* the process starts at StartTime and the clock advances by TickSeconds.
relogin_cooldown == 30
StartTime == 1000
TickSeconds == 30
MaxTicks == 1

\* The caller of relogin_and_reload_cookies continues with what the call
\* gave it: "cookies" (the list returned after a login), "none" (the bare
\* return of the cooldown branch) or "exc" (the login raised).
\* login_and_get_context hands the value to context.add_cookies, which
\* rejects None; an exception is logged and re-raised to run().
login_and_get_context_resume(v) ==
    /\ rpc' = IF v = "cookies" THEN "add_cookies" ELSE "aborted"
    /\ UNCHANGED <<chunk_start, status_csv, nsnap, taskvars, titlevars>>

\* async_fetch_title after its call of relogin_and_reload_cookies: the value
\* is dropped and an exception is caught by the attempt's "except Exception";
\* either way the worker is suspended in asyncio.sleep(1).
async_fetch_title_resume_uncaught(i, v) ==
    /\ IF v = "exc"
       THEN /\ rpc' = "crashed"
            /\ tpc' = [tpc EXCEPT ![i] = "done"]
       ELSE /\ tpc' = [tpc EXCEPT ![i] = "sleep"]
            /\ UNCHANGED rpc
    /\ UNCHANGED <<chunk_start, status_csv, nsnap, sem, page, res, titlevars>>
async_fetch_title_resume(i, v) ==
    /\ tpc' = [tpc EXCEPT ![i] = "sleep"]
    /\ UNCHANGED <<runvars, sem, page, res, titlevars>>

Resume(c, v) ==
    IF c = 0 THEN login_and_get_context_resume(v) ELSE async_fetch_title_resume(c, v)

\* "async with self.relogin_lock": the caller waits while the lock is held.
relogin_lock_never_locked == FALSE
relogin_lock_locked == relogin_lock # {}

\* "if (now - self.last_relogin_time) < self.relogin_cooldown".
cooldown_never_reached == FALSE
cooldown_not_reached == (now - last_relogin_time) < relogin_cooldown

\* What the call gives back to its caller: the bare "return" of the skip
\* branch gives None, "return self.playwright_cookies" the bundle of the
\* login just made.
skip_return == "none"
login_return == "cookies"

\* async with self.relogin_lock, the cooldown test and the skip branch.
relogin_and_reload_cookies(c) ==
    /\ lpc[c] = "want"
    /\ ~relogin_lock_locked
    /\ IF cooldown_not_reached
       THEN /\ lpc' = [lpc EXCEPT ![c] = "idle"]
            /\ UNCHANGED relogin_lock
            /\ Resume(c, skip_return)
       ELSE /\ lpc' = [lpc EXCEPT ![c] = "login"]
            /\ relogin_lock' = {c}
            /\ UNCHANGED <<runvars, taskvars, titlevars>>
    /\ UNCHANGED <<inputvars, all_pairs, fs, last_relogin_time, now, cookie_file,
                   cookie_list, playwright_cookies>>

\* The lock when the body of "async with self.relogin_lock" is left, by the
\* return as by an exception of the login.
lock_after_login_held_on_raise(c, ok) == IF ok THEN relogin_lock \ {c} ELSE relogin_lock
lock_after_login(c, ok) == relogin_lock \ {c}

\* "self.last_relogin_time = time.time()" is reached only when the login
\* and load_cookies_to_session have returned.
relogin_time_after_any_login(ok) == now
relogin_time_after(ok) == IF ok THEN now ELSE last_relogin_time

\* The try of playwright_login, up to its finally:
\*   "cookies"    context.cookies() gave cookies: they are stored in
\*                playwright_cookies and written to cookies.json
\*   "nocookies"  it gave none (warning only)
\*   "raise"      a step before the cookies were had raised
\*   "open"       the cookies were stored and open(cookies.json, "w") raised:
\*                the file is as it was
\*   "dump"       the cookies were stored and json.dump raised: the file is
\*                there, cut short
\* An exception is logged and re-raised after the finally.
LoginOutcomes == {"cookies", "nocookies", "raise", "open", "dump"}
LoginRaised == {"raise", "open", "dump"}

\* "self.playwright_cookies = cookies": the scripts never compare two
\* bundles, so the bundles from the MaxBundles-th on are not told apart.
MaxBundles == 2
captured(bundle) == IF bundle < MaxBundles THEN bundle + 1 ELSE MaxBundles

login_flow(o) ==
    /\ playwright_cookies' =
          IF o \in {"cookies", "open", "dump"} THEN captured(playwright_cookies)
          ELSE playwright_cookies
    /\ cookie_file' = (cookie_file \/ o \in {"cookies", "dump"})
    /\ cookie_list' = CASE o = "cookies" -> TRUE
                        [] o = "dump" -> FALSE
                        [] OTHER -> cookie_list

\* load_cookies_to_session returns: cookies.json is there and json.load and
\* the loop over its cookies accept what it holds.
load_cookies_to_session == cookie_file /\ cookie_list

\* relogin_and_reload_cookies after "await self.playwright_login()":
\* load_cookies_to_session (which raises without cookies.json), the time
\* stamp and the return; the lock is released by async with.  `returned`
\* is FALSE when playwright_login raised.
relogin_return(c, returned) ==
    LET ok == returned /\ load_cookies_to_session
    IN /\ last_relogin_time' = relogin_time_after(ok)
       /\ Resume(c, IF ok THEN login_return ELSE "exc")
       /\ relogin_lock' = lock_after_login(c, ok)
       /\ lpc' = [lpc EXCEPT ![c] = "idle"]

\* What playwright_login can come to: "launch" is an exception before its
\* try, which no finally follows: the ValueError of "if not USERNAME or not
\* PASSWORD", or async_playwright, the browser, its context or its page
\* could not be had.
playwright_login_outcomes ==
    IF credentials THEN LoginOutcomes \cup {"launch"} ELSE {"launch"}

\* playwright_login under the lock, up to its finally.
playwright_login(c) ==
    /\ lpc[c] = "login"
    /\ \E o \in playwright_login_outcomes :
         IF o = "launch"
         THEN /\ relogin_return(c, FALSE)
              /\ UNCHANGED <<playwright_cookies, cookie_file, cookie_list>>
         ELSE /\ login_flow(o)
              /\ lpc' = [lpc EXCEPT ![c] = IF o \in LoginRaised THEN "close_exc" ELSE "close"]
              /\ UNCHANGED <<runvars, taskvars, titlevars, relogin_lock,
                             last_relogin_time>>
    /\ UNCHANGED <<inputvars, all_pairs, fs, now>>

\* "finally: await context.close(); await browser.close()" returns or
\* raises, then the rest of relogin_and_reload_cookies.
playwright_login_close(c) ==
    /\ lpc[c] \in {"close", "close_exc"}
    /\ \E closed \in BOOLEAN : relogin_return(c, closed /\ lpc[c] = "close")
    /\ UNCHANGED <<inputvars, all_pairs, fs, now, cookie_file, cookie_list,
                   playwright_cookies>>

\* Time passes.  The clock is read only inside relogin_and_reload_cookies,
\* and the browser scripts call it once, on a fresh LoginManager, where
\* every time of day compares alike with last_relogin_time = 0.0.
Tick ==
    /\ stage = "titles"
    /\ \E c \in Callers : lpc[c] # "idle"
    /\ now < StartTime + MaxTicks * TickSeconds
    /\ now' = now + TickSeconds
    /\ UNCHANGED <<inputvars, all_pairs, fs, runvars, taskvars, relogin_lock,
                   last_relogin_time, lpc, cookie_file, cookie_list, playwright_cookies,
                   titlevars>>

\* ------------------------------------------------------- browser stages
\* discover_all_pairs / read_input_csv / discover_all_citing_articles:
\* the upstream rows in iteration order.  citing and references keep a row
\* only "if miscited_eid:" / "if citing_eid:" after strip(); read_input_csv
\* of miscited appends every row.
\* row.get("EID", "") is None for a short row, and None.strip() raises
\* AttributeError in the middle of the loop of citing and references: the
\* rows before that one were read.  The loop of references strips
\* row.get("Title", "") and row.get("Link", "") of every row as well, before
\* it looks at the EID, and raises in the same way for a row that lacks
\* one of them; citing reads the EID only.
raising_rows ==
    {i \in 1..Len(upstream) :
        upstream[i] = None \/ (stage = "references" /\ i = short_row)}
discover_raises ==
    input_present /\ stage \in {"citing", "references"} /\ raising_rows # {}
rows_read ==
    IF raising_rows # {}
    THEN SubSeq(upstream, 1, (CHOOSE i \in raising_rows :
                                \A j \in raising_rows : i <= j) - 1)
    ELSE upstream
discover_all_pairs ==
    IF ~input_present THEN <<>>
    ELSE IF stage \in {"citing", "references"}
         THEN SelectSeq(rows_read, LAMBDA k : k # Blank)
         ELSE upstream

Chunk_one_short(start) == {i \in Entries : start < i /\ i < start + CHUNK_SIZE}
Chunk(start) == {i \in Entries : start < i /\ i <= start + CHUNK_SIZE}

\* Positions of a worker task inside "async with sem": the page action of
\* the browser scripts, the retry loop of the title script.
InSection == {"page", "goto", "probe0", "count", "close_count", "close_except", "export",
              "probe", "mark", "hung", "close", "fetch", "relogin", "sleep"}
InFlight == {i \in 1..MaxUnits : tpc[i] \in InSection}

\* tasks = [create_task(...) for pair in chunk] with a fresh Semaphore.  A
\* page that an earlier task left open stays open in the context; the page
\* objects that were closed went with the tasks of the chunk that ended.
spawn_chunk(start) ==
    /\ chunk_start' = start
    /\ sem' = MAX_CONCURRENCY
    /\ tpc' = [i \in 1..MaxUnits |-> IF i \in Chunk(start) THEN "wait" ELSE tpc[i]]
    /\ page' = [i \in 1..MaxUnits |-> IF page[i] = "closed" THEN "none" ELSE page[i]]
    /\ UNCHANGED res

\* The worker tasks are scheduled while run() awaits gather, and still
\* while the exception of a task travels out of run() (the exit of "async
\* with async_playwright()" is awaited), until asyncio.run cancels them.
tasks_run == rpc \in {"gather", "unwinding"}

\* __init__ of CitingDocumentsScraper and ReferencesOfCitingScraper raises
\* ValueError "if not SCOPUS_USERNAME or not SCOPUS_PASSWORD"; __main__
\* constructs the scraper before its try.
init_raises == stage \in {"citing", "references"} /\ ~credentials

\* __main__ constructs the scraper, then run() up to "async with
\* async_playwright() as p"; an exception of the discovery leaves run().
run_start ==
    /\ rpc = "start"
    /\ stage \in BrowserStages
    /\ IF init_raises
       THEN /\ rpc' = "init_raised"
            /\ UNCHANGED all_pairs
       ELSE /\ all_pairs' = discover_all_pairs
            /\ rpc' = IF discover_raises THEN "crashed"
                      ELSE IF all_pairs' = <<>> THEN "done" ELSE "launch"
    /\ UNCHANGED <<titlevars, inputvars, fs, chunk_start, status_csv, nsnap, taskvars, lmvars>>

\* async_playwright() is entered, then login_and_get_context: chromium.launch
\* and new_context, then the call of relogin_and_reload_cookies.
\*   "ok"          the browser and its context are there
\*   "launch"      launch or new_context raised, inside the try of run()
\*   "playwright"  async_playwright() raised on entry, outside that try
login_and_get_context ==
    /\ rpc = "launch"
    /\ \E o \in {"ok", "launch", "playwright"} :
         IF o = "ok"
         THEN /\ rpc' = "relogin"
              /\ lpc' = [lpc EXCEPT ![0] = "want"]
         ELSE /\ rpc' = IF o = "launch" THEN "aborted" ELSE "crashed"
              /\ UNCHANGED lpc
    /\ UNCHANGED <<titlevars, inputvars, all_pairs, fs, chunk_start, status_csv, nsnap, taskvars,
                   relogin_lock, last_relogin_time, now, cookie_file, cookie_list,
                   playwright_cookies>>

\* "except Exception: critical(...); return" is inside "async with
\* async_playwright()": the exit of the context manager is awaited after the
\* critical log.  When it returns run() has returned and nothing changes;
\* when it raises the exception leaves run() and __main__ logs it.
run_abort_exit ==
    /\ rpc = "aborted"
    /\ rpc' = "crashed"
    /\ UNCHANGED <<titlevars, inputvars, all_pairs, fs, chunk_start, status_csv, nsnap,
                   taskvars, lmvars>>

\* context.add_cookies(cookies) returns or raises; on return run() creates
\* the tasks of the first chunk and awaits them.
run_first_chunk_tasks_first ==
    /\ rpc = "add_cookies"
    /\ spawn_chunk(0)
    /\ \E ok \in BOOLEAN : rpc' = IF ok THEN "gather" ELSE "aborted"
    /\ UNCHANGED <<titlevars, inputvars, all_pairs, fs, status_csv, nsnap, lmvars>>
run_first_chunk ==
    /\ rpc = "add_cookies"
    /\ \E ok \in BOOLEAN :
         IF ok THEN /\ rpc' = "gather"
                    /\ spawn_chunk(0)
               ELSE /\ rpc' = "aborted"
                    /\ UNCHANGED <<chunk_start, taskvars>>
    /\ UNCHANGED <<titlevars, inputvars, all_pairs, fs, status_csv, nsnap, lmvars>>

\* await asyncio.gather(*tasks) returns when every task of the chunk is done.
gather_returns_ignores_hung == \A i \in Chunk(chunk_start) : tpc[i] \in {"done", "hung"}
gather_returns_unawaited == TRUE
gather_returns_first == \E i \in Chunk(chunk_start) : tpc[i] = "done"
gather_returns == \A i \in Chunk(chunk_start) : tpc[i] = "done"

\* gather returns, generate_status_csv, then the next chunk's tasks or
\* browser.close; an exception of generate_status_csv leaves run().
run_chunk_done ==
    /\ rpc = "gather"
    /\ stage \in BrowserStages
    /\ gather_returns
    /\ generate_status_csv
    /\ IF generate_status_csv_raises
       THEN /\ rpc' = "crashed"
            /\ UNCHANGED <<chunk_start, taskvars>>
       ELSE IF chunk_start + CHUNK_SIZE < N
       THEN /\ spawn_chunk(chunk_start + CHUNK_SIZE)
            /\ UNCHANGED rpc
       ELSE /\ rpc' = "close"
            /\ UNCHANGED <<chunk_start, taskvars>>
    /\ UNCHANGED <<titlevars, inputvars, all_pairs, fs, lmvars>>

\* A task of the chunk ended by an exception: gather re-raises it in run(),
\* which has no handler around the loop of chunks.
gather_raises ==
    /\ rpc = "gather"
    /\ stage \in BrowserStages
    /\ \E i \in Chunk(chunk_start) : tpc[i] = "raised"
    /\ rpc' = "unwinding"
    /\ UNCHANGED <<titlevars, inputvars, all_pairs, fs, chunk_start, status_csv, nsnap,
                   taskvars, lmvars>>

\* The exception has left run(): asyncio.run cancels the tasks that are
\* left and __main__ logs it.  CancelledError is no Exception, so no handler
\* of a task catches it: a task inside "async with sem" gives its permit
\* back and ends with its page as it is, a task that waits for a permit
\* ends without one.
run_cancelled ==
    /\ rpc = "unwinding"
    /\ rpc' = "crashed"
    /\ tpc' = [i \in 1..MaxUnits |->
                 IF tpc[i] \in InSection \cup {"wait"} THEN "cancelled" ELSE tpc[i]]
    /\ sem' = sem + Cardinality(InFlight)
    /\ UNCHANGED <<titlevars, inputvars, all_pairs, fs, chunk_start, status_csv, nsnap,
                   page, res, lmvars>>

\* browser.close() and the exit of "async with async_playwright()" returned,
\* then the final generate_status_csv; or one of the three raised and the
\* exception leaves run().
run_final ==
    /\ rpc = "close"
    /\ \E ok \in BOOLEAN :
         IF ok THEN /\ generate_status_csv
                    /\ rpc' = IF generate_status_csv_raises THEN "crashed" ELSE "done"
               ELSE /\ rpc' = "crashed"
                    /\ UNCHANGED <<status_csv, nsnap>>
    /\ UNCHANGED <<titlevars, inputvars, all_pairs, fs, chunk_start, taskvars, lmvars>>

\* The outer "except Exception" of the worker catches every exception the
\* page action raises (TimeoutError and Error are subclasses of Exception).
outer_except(exc) == exc \in {"TimeoutError", "Error", "OSError", "IndexError"}

\* The task ends: async with sem releases the permit.  `exc` is the
\* exception that reached the outer handler, "" when none did; an exception
\* the handler does not catch ends the task with it.
task_done(i, r, pg, exc, held) ==
    /\ tpc' = [tpc EXCEPT ![i] = IF exc # "" /\ ~outer_except(exc) THEN "raised" ELSE "done"]
    /\ res' = [res EXCEPT ![i] = r]
    /\ page' = [page EXCEPT ![i] = pg]
    /\ sem' = IF held THEN sem + 1 ELSE sem
    /\ UNCHANGED runvars

\* The page action is over with report r and the task is suspended in
\* "await page.close()", its permit still held.
page_close_pending(i, r) ==
    /\ tpc' = [tpc EXCEPT ![i] = "close"]
    /\ res' = [res EXCEPT ![i] = r]
    /\ UNCHANGED <<runvars, sem, page>>

touch_in_new_folder(k, file) == fs' = [fs EXCEPT ![k] = {file}]
touch(k, file) == fs' = [fs EXCEPT ![k] = @ \cup {file}]

\* The step that follows page.goto in each script.
first_step(st) ==
    CASE st = "miscited" -> "probe0"
      [] st = "citing" -> "export"
      [] st = "references" -> "count"

\* async with sem; the folder test; the skip or mkdir; the URL.
\*   "ok"     the folder is there or was created, and the URL was built
\*   "mkdir"  folder_path.mkdir raised
\*   "url"    citing_eid.split('-')[2] raised (references script only)
enter_outcomes(loc) ==
    {"ok"} \cup (IF "dir" \in loc THEN {} ELSE {"mkdir"})
           \cup (IF stage = "references" THEN {"url"} ELSE {})

scrape_single_pair_enter(i) ==
    /\ tasks_run
    /\ stage \in BrowserStages
    /\ tpc[i] = "wait"
    /\ ~sem_locked
    /\ LET k == all_pairs[i]
           loc == fs[k]
       IN IF k = None
          THEN \* Path(DOWNLOADS_DIR) / None raises TypeError before the try
               \* of the task (miscited script).
               /\ tpc' = [tpc EXCEPT ![i] = "raised"]
               /\ res' = [res EXCEPT ![i] = "error"]
               /\ UNCHANGED <<fs, runvars, sem, page>>
          ELSE IF "dir" \in loc /\ HasMarker(loc)
          THEN /\ task_done(i, "skipped", "none", "", FALSE)
               /\ UNCHANGED fs
          ELSE \E o \in enter_outcomes(loc) :
                 /\ fs' = IF o = "mkdir" THEN fs ELSE [fs EXCEPT ![k] = @ \cup {"dir"}]
                 /\ IF o = "ok"
                    THEN /\ tpc' = [tpc EXCEPT ![i] = "page"]
                         /\ sem' = sem - 1
                         /\ UNCHANGED <<runvars, page, res>>
                    ELSE task_done(i, "error", "none",
                                   IF o = "mkdir" THEN "OSError" ELSE "IndexError", FALSE)
    /\ UNCHANGED <<titlevars, inputvars, all_pairs, lmvars>>

\* "page = await context.new_page()" returns the page or raises.
scrape_single_pair_new_page(i) ==
    /\ tasks_run
    /\ tpc[i] = "page"
    /\ \E ok \in BOOLEAN :
         IF ok THEN /\ tpc' = [tpc EXCEPT ![i] = "goto"]
                    /\ page' = [page EXCEPT ![i] = "open"]
                    /\ UNCHANGED <<runvars, sem, res>>
               ELSE task_done(i, "fail", "none", "Error", TRUE)
    /\ UNCHANGED <<titlevars, inputvars, all_pairs, fs, lmvars>>

\* page.goto(url, wait_until="networkidle").
\*   "ok"        the page of the unit is loaded
\*   "rejected"  the navigation ends on the login form of the remote side
\*               (the session of the context was rejected); what the steps
\*               on that page bring back is up to the remote side
\*   "goto"      the call raised: the outer handler is reached past the
\*               page.close() of the inner try
scrape_single_pair_goto(i) ==
    /\ tasks_run
    /\ tpc[i] = "goto"
    /\ \E o \in {"ok", "rejected", "goto"} :
         IF o = "goto"
         THEN task_done(i, "fail", "open", "TimeoutError", TRUE)
         ELSE /\ tpc' = [tpc EXCEPT ![i] = first_step(stage)]
              /\ page' = [page EXCEPT ![i] = IF o = "ok" THEN "open" ELSE "login_page"]
              /\ UNCHANGED <<runvars, sem, res>>
    /\ UNCHANGED <<titlevars, inputvars, all_pairs, fs, lmvars>>

\* miscited script: wait_for_selector(no-results, timeout=500) before the export.
scrape_single_eid_probe(i) ==
    /\ tasks_run
    /\ tpc[i] = "probe0"
    /\ \E o \in {"found", "TimeoutError", "Error"} :
         CASE o = "found" ->
                /\ touch(all_pairs[i], "empty.txt")
                /\ page_close_pending(i, "empty")
           [] o = "TimeoutError" ->
                /\ tpc' = [tpc EXCEPT ![i] = "export"]
                /\ UNCHANGED <<fs, runvars, sem, page, res>>
           [] o = "Error" ->
                \* the outer handler: page.close() is not reached and the page
                \* stays as it is
                /\ task_done(i, "fail", page[i], "Error", TRUE)
                /\ UNCHANGED fs
    /\ UNCHANGED <<titlevars, inputvars, all_pairs, lmvars>>

\* references script: the reference count read from span#pageTitleHeader.
\*   "zero"      0 references, or a text the regex does not match
\*   "positive"  at least one reference
\*   "TimeoutError", "Error"  the read raised: empty.txt is created all the same
\* In the three cases empty.txt is touched and the task is suspended in the
\* page.close() of its branch: inside the try of the count for "zero", in a
\* handler of that try when the read raised.
scrape_references_count(i) ==
    /\ tasks_run
    /\ tpc[i] = "count"
    /\ \E o \in {"zero", "positive", "TimeoutError", "Error"} :
         IF o = "positive"
         THEN /\ tpc' = [tpc EXCEPT ![i] = "export"]
              /\ UNCHANGED <<fs, runvars, sem, page, res>>
         ELSE /\ touch(all_pairs[i], "empty.txt")
              /\ tpc' = [tpc EXCEPT ![i] = IF o = "zero" THEN "close_count" ELSE "close_except"]
              /\ res' = [res EXCEPT ![i] = IF o = "zero" THEN "empty" ELSE "fail"]
              /\ UNCHANGED <<runvars, sem, page>>
    /\ UNCHANGED <<titlevars, inputvars, all_pairs, lmvars>>

\* references script: "await page.close(); return" of the count branch.
\*   "ok"  the page is closed; the return runs the finally of the flow,
\*         which awaits page.close() once more
\*   "TimeoutError", "Error"  the close raised.  Inside the try of the
\*         count the handler of its class takes it, touches empty.txt again
\*         and awaits page.close() itself.  Raised in such a handler, a
\*         TimeoutError is taken by the "except TimeoutError" of the export
\*         flow (the no-results wait), another exception by its "except
\*         Exception" (logged); the finally follows.
scrape_references_close(i) ==
    /\ tasks_run
    /\ tpc[i] \in {"close_count", "close_except"}
    /\ \E o \in {"ok", "TimeoutError", "Error"} :
         CASE o = "ok" ->
                /\ page' = [page EXCEPT ![i] = "closed"]
                /\ tpc' = [tpc EXCEPT ![i] = "close"]
           [] o # "ok" /\ tpc[i] = "close_count" ->
                /\ tpc' = [tpc EXCEPT ![i] = "close_except"]
                /\ UNCHANGED page
           [] o = "TimeoutError" /\ tpc[i] = "close_except" ->
                /\ tpc' = [tpc EXCEPT ![i] = "probe"]
                /\ UNCHANGED page
           [] OTHER ->
                /\ tpc' = [tpc EXCEPT ![i] = "close"]
                /\ UNCHANGED page
    /\ UNCHANGED <<titlevars, inputvars, all_pairs, fs, runvars, sem, res, lmvars>>

\* The export flow up to download.save_as.
\*   "saved"         the download arrived and save_as wrote <UnitKey>.csv
\*   "TimeoutError"  a step timed out
\*   "Error"         a step raised another exception
\*   "hang"          expect_download(timeout=0) never returns (citing script)
export_outcomes(st) ==
    {"saved", "TimeoutError", "Error"} \cup (IF st = "citing" THEN {"hang"} ELSE {})

\* The file that the "saved" step leaves in the folder: download.save_as
\* writes <UnitKey>.csv; success.txt is touched only after it returned.
saved_file_marker_first == "success.txt"
saved_file == "csv"

scrape_single_pair_export(i) ==
    /\ tasks_run
    /\ tpc[i] = "export"
    /\ \E o \in export_outcomes(stage) :
         CASE o = "saved" ->
                /\ touch(all_pairs[i], saved_file)
                /\ tpc' = [tpc EXCEPT ![i] = "mark"]
                /\ UNCHANGED <<runvars, sem, page, res>>
           [] o = "TimeoutError" /\ stage # "miscited" ->
                /\ tpc' = [tpc EXCEPT ![i] = "probe"]
                /\ UNCHANGED <<fs, runvars, sem, page, res>>
           [] o = "hang" ->
                /\ tpc' = [tpc EXCEPT ![i] = "hung"]
                /\ UNCHANGED <<fs, runvars, sem, page, res>>
           [] OTHER ->
                /\ page_close_pending(i, "fail")
                /\ UNCHANGED fs
    /\ UNCHANGED <<titlevars, inputvars, all_pairs, lmvars>>

\* The task is suspended in download.save_as with <UnitKey>.csv written.
\*   "ok"            it returned: success_file.touch(exist_ok=True), then
\*                   page.close() is awaited
\*   "TimeoutError"  it raised: the no-results wait (citing, references),
\*                   or the "except Exception" of the export (miscited)
\*   "Error"         it raised another exception: logged, no marker
scrape_single_pair_save_as(i) ==
    /\ tasks_run
    /\ tpc[i] = "mark"
    /\ \E o \in {"ok", "TimeoutError", "Error"} :
         CASE o = "ok" ->
                /\ touch(all_pairs[i], "success.txt")
                /\ page_close_pending(i, "success")
           [] o = "TimeoutError" /\ stage # "miscited" ->
                /\ tpc' = [tpc EXCEPT ![i] = "probe"]
                /\ UNCHANGED <<fs, runvars, sem, page, res>>
           [] OTHER ->
                /\ page_close_pending(i, "fail")
                /\ UNCHANGED fs
    /\ UNCHANGED <<titlevars, inputvars, all_pairs, lmvars>>

\* except TimeoutError: wait_for_selector(no-results); then the finally
\* awaits page.close(), also when the wait raised another exception.
scrape_single_pair_no_results(i) ==
    /\ tasks_run
    /\ tpc[i] = "probe"
    /\ \E o \in {"found", "TimeoutError", "Error"} :
         IF o = "found"
         THEN /\ touch(all_pairs[i], "empty.txt")
              /\ page_close_pending(i, "empty")
         ELSE /\ page_close_pending(i, "fail")
              /\ UNCHANGED fs
    /\ UNCHANGED <<titlevars, inputvars, all_pairs, lmvars>>

\* "await page.close()" returns or raises; an exception of it reaches the
\* outer handler of the task.  Then the task returns.
page_close(i) ==
    /\ tasks_run
    /\ tpc[i] = "close"
    /\ \E ok \in BOOLEAN :
         task_done(i, res[i], IF ok THEN "closed" ELSE page[i],
                   IF ok THEN "" ELSE "Error", TRUE)
    /\ UNCHANGED <<titlevars, inputvars, all_pairs, fs, lmvars>>

\* ---------------------------------------------------- title script: run
\* "if existing_title and existing_title != 'Error'": the EID is skipped.
GoodTitle(t) == t # "norecord" /\ t # "" /\ t # "Error"

\* rows_to_process: the input rows without a good Title in `records`.
rows_to_process_all(records) == upstream
rows_to_process(records) ==
    SelectSeq(upstream, LAMBDA k : ~GoodTitle(records[k]))

\* tasks = [create_task(async_fetch_title(r, sem)) for r in chunk]
title_spawn(start, rows) ==
    /\ chunk_start' = start
    /\ tpc' = [i \in 1..MaxUnits |->
                 IF start < i /\ i <= start + CHUNK_SIZE /\ i <= Len(rows)
                 THEN "wait" ELSE tpc[i]]
    /\ UNCHANGED res

\* eid = row["EID"] of the loop that builds rows_to_process raises KeyError
\* at the first row when the header has no EID column.
rows_to_process_raises == input_present /\ ~eid_column /\ upstream # <<>>

\* The keys of the dict whose rows are written with an empty EID field:
\* csv.DictWriter writes the EID None as an empty field.
EmptyKeys == {Blank, None}

\* load_existing_output_csv: "self.output_data_dict[eid] = row" for the rows
\* of the file in file order, a later row taking the place of an earlier one
\* with the same EID field; no row of the file gives the key None.
load_existing_output_csv ==
    /\ output_data_dict' = output_file
    /\ dict_order' = IF output_file[Blank] # "norecord" THEN <<Blank>> ELSE <<>>

\* load_existing_output_csv, then scrape_titles_concurrently up to the
\* first gather; an exception leaves run().
scrape_titles_concurrently ==
    /\ load_existing_output_csv
    /\ IF rows_to_process_raises
       THEN /\ rpc' = "crashed"
            /\ UNCHANGED <<all_pairs, chunk_start, sem, tpc, res>>
       ELSE /\ all_pairs' = IF input_present THEN rows_to_process(output_file) ELSE <<>>
            /\ IF all_pairs' = <<>>
               THEN /\ rpc' = "done"
                    /\ UNCHANGED <<chunk_start, sem, tpc, res>>
               ELSE /\ rpc' = "gather"
                    /\ sem' = MAX_CONCURRENCY
                    /\ title_spawn(0, rows_to_process(output_file))
    /\ UNCHANGED <<status_csv, nsnap, page, attempt, last_status, response, output_file,
                   output_shadowed>>

\* run(): ensure_logged_in with cookies.json present loads the cookies, and
\* an exception of load_cookies_to_session leaves run(); without the file
\* playwright_login is awaited first (outside the lock).
run_titles ==
    /\ rpc = "start"
    /\ stage = "titles"
    /\ IF ~cookie_file
       THEN /\ rpc' = "ensure_login"
            /\ UNCHANGED <<all_pairs, chunk_start, status_csv, nsnap, taskvars, titlevars>>
       ELSE IF load_cookies_to_session
       THEN scrape_titles_concurrently
       ELSE /\ rpc' = "crashed"
            /\ UNCHANGED <<all_pairs, chunk_start, status_csv, nsnap, taskvars, titlevars>>
    /\ UNCHANGED <<inputvars, fs, lmvars>>

\* ensure_logged_in without cookies.json: playwright_login (outside the
\* lock) up to its finally; an exception before the try leaves run().
ensure_logged_in ==
    /\ rpc = "ensure_login"
    /\ \E o \in playwright_login_outcomes :
         IF o = "launch"
         THEN /\ rpc' = "crashed"
              /\ UNCHANGED <<cookie_file, cookie_list, playwright_cookies>>
         ELSE /\ login_flow(o)
              /\ rpc' = IF o \in LoginRaised THEN "ensure_close_exc" ELSE "ensure_close"
    /\ UNCHANGED <<inputvars, all_pairs, fs, chunk_start, status_csv, nsnap, taskvars,
                   titlevars, relogin_lock, last_relogin_time, now, lpc>>

\* The finally of that login returns or raises, then load_cookies_to_session
\* and the rest of run(); an exception leaves run().
ensure_logged_in_close ==
    /\ rpc \in {"ensure_close", "ensure_close_exc"}
    /\ \E closed \in BOOLEAN :
         IF closed /\ rpc = "ensure_close" /\ load_cookies_to_session
         THEN scrape_titles_concurrently
         ELSE /\ rpc' = "crashed"
              /\ UNCHANGED <<all_pairs, chunk_start, status_csv, nsnap, taskvars,
                             titlevars>>
    /\ UNCHANGED <<inputvars, fs, lmvars>>

\* async with sem; the first turn of the retry loop sends the request.
async_fetch_title_enter(i) ==
    /\ rpc = "gather"
    /\ stage = "titles"
    /\ tpc[i] = "wait"
    /\ ~sem_locked
    /\ sem' = sem - 1
    /\ tpc' = [tpc EXCEPT ![i] = "fetch"]
    /\ attempt' = [attempt EXCEPT ![i] = 1]
    /\ UNCHANGED <<inputvars, all_pairs, fs, runvars, page, res, lmvars, last_status,
                   response, filevars>>

\* What session.get(url, timeout=10) brings back.
\*   "200"               a body whose first title is a non-empty string
\*   "200 empty title"   a body whose first title is "" or null
\*   "200 no titles"     a body without titles
\*   "200 bad json"      a body that is not JSON
\*   "200 not object"    a JSON body that is not an object: data.get raises
\*                       AttributeError, caught by "except Exception"
Responses == {"403", "200", "200 empty title", "200 no titles", "200 bad json",
              "200 not object", "404", "500", "exception"}

\* response.status_code, as far as the script tells the codes apart.
status_code(o) ==
    CASE o = "403" -> "403"
      [] o \in {"200", "200 empty title", "200 no titles", "200 bad json",
                "200 not object"} -> "200"
      [] o = "404" -> "404"
      [] OTHER -> "other"

\* The responses answered by relogin_and_reload_cookies: "if last_status ==
\* 403" and "except JSONDecodeError".
needs_relogin_bad_json_only(o) == o = "200 bad json"
needs_relogin(o) == o \in {"403", "200 bad json"}

\* The response of one attempt.
async_fetch_title(i) ==
    /\ rpc = "gather"
    /\ tpc[i] = "fetch"
    /\ \E o \in Responses :
         CASE needs_relogin(o) ->
                /\ last_status' = [last_status EXCEPT ![i] = status_code(o)]
                /\ response' = [response EXCEPT ![i] = status_code(o)]
                /\ tpc' = [tpc EXCEPT ![i] = "relogin"]
                /\ lpc' = [lpc EXCEPT ![i] = "want"]
                /\ UNCHANGED <<runvars, sem, page, res, attempt>>
           [] o = "200" -> fetch_return(i, "T") /\ UNCHANGED lpc
           [] o = "200 empty title" -> fetch_return(i, "") /\ UNCHANGED lpc
           [] o = "200 no titles" -> fetch_return(i, "Title not found") /\ UNCHANGED lpc
           [] o = "404" -> fetch_return(i, "404 Not Found") /\ UNCHANGED lpc
           [] OTHER ->
                \* another status, or an exception of the request: the
                \* worker is suspended in asyncio.sleep(1)
                /\ last_status' = [last_status EXCEPT ![i] =
                                     IF o = "exception" THEN @ ELSE status_code(o)]
                /\ response' = [response EXCEPT ![i] =
                                  IF o = "exception" THEN "none" ELSE status_code(o)]
                /\ tpc' = [tpc EXCEPT ![i] = "sleep"]
                /\ UNCHANGED <<runvars, sem, page, res, attempt, lpc>>
    /\ UNCHANGED <<inputvars, all_pairs, fs, relogin_lock, last_relogin_time, now,
                   cookie_file, cookie_list, playwright_cookies, filevars>>

\* asyncio.sleep(1) is over: the next turn of "for attempt in range(1, 6)",
\* or the code after the loop.
async_fetch_title_sleep(i) ==
    /\ rpc = "gather"
    /\ tpc[i] = "sleep"
    /\ next_attempt(i)
    /\ UNCHANGED <<inputvars, all_pairs, fs, lmvars, filevars>>

\* "for (eid, title) in results": the results in task order, a later one
\* replacing an earlier one of the same EID.
apply_results(dict) ==
    [k \in Keys |->
        LET idx == {i \in Chunk(chunk_start) : all_pairs[i] = k}
        IN IF idx = {} THEN dict[k]
           ELSE res[CHOOSE i \in idx : \A j \in idx : j <= i]]

\* "self.output_data_dict[eid] = matching_row" appends a key that the dict
\* does not hold: the order of the keys "" and None after the results of
\* the chunk were applied, a new key placed by its first result.
inserted_order(dict, order) ==
    LET rows(k) == {i \in Chunk(chunk_start) : all_pairs[i] = k}
        first(k) == CHOOSE i \in rows(k) : \A j \in rows(k) : i <= j
        new == {k \in EmptyKeys : dict[k] = "norecord" /\ rows(k) # {}}
    IN CASE new = {} -> order
         [] new = {Blank} -> order \o <<Blank>>
         [] new = {None} -> order \o <<None>>
         [] OTHER -> IF first(Blank) < first(None) THEN <<Blank, None>>
                     ELSE <<None, Blank>>

\* "if not self.output_data_dict: return" of save_output_csv.
save_output_csv_returns_early(dict) == \A k \in Keys : dict[k] = "norecord"

\* save_output_csv rewrites the file from list(self.output_data_dict.values()),
\* one row for each key in the order of the dict.  Read back, an EID field
\* gives the Title of the last row that holds it: the key that comes last of
\* "" and None gives the record of the empty EID field.
save_output_csv(dict, order) ==
    [k \in Keys |->
        CASE k = None -> "norecord"
          [] k = Blank -> IF order = <<>> THEN "norecord" ELSE dict[order[Len(order)]]
          [] OTHER -> dict[k]]

\* The row of the written file with an empty EID field that a later such
\* row follows: the row of the key that comes first of "" and None.
shadowed_row(dict, order) == IF Len(order) = 2 THEN dict[order[1]] ELSE "norecord"

\* gather returns; the dict is updated and saved; then the next chunk, or
\* the final save after the last one.
scrape_titles_chunk_done ==
    /\ rpc = "gather"
    /\ stage = "titles"
    /\ gather_returns
    /\ output_data_dict' = apply_results(output_data_dict)
    /\ dict_order' = inserted_order(output_data_dict, dict_order)
    /\ IF save_output_csv_returns_early(output_data_dict')
       THEN UNCHANGED <<output_file, output_shadowed>>
       ELSE /\ output_file' = save_output_csv(output_data_dict', dict_order')
            /\ output_shadowed' = shadowed_row(output_data_dict', dict_order')
    /\ IF chunk_start + CHUNK_SIZE < N
       THEN /\ title_spawn(chunk_start + CHUNK_SIZE, all_pairs)
            /\ nsnap' = nsnap + 1
            /\ UNCHANGED rpc
       ELSE /\ rpc' = "done"
            /\ nsnap' = nsnap + 2
            /\ UNCHANGED <<chunk_start, tpc, res>>
    /\ UNCHANGED <<inputvars, all_pairs, fs, status_csv, sem, page, lmvars, attempt,
                   last_status, response>>

\* ------------------------------------------------------------- __main__
\* logger.critical: run() logs "Failed to initialize browser context" and
\* returns; an exception that leaves run() is logged by the "except
\* Exception" around asyncio.run.
critical_logged == rpc \in {"aborted", "crashed"}

\* The exit status of the process: the script ends by falling off the end
\* of the __main__ block, after a normal return of run() as after the
\* "except Exception" branch, and no script calls sys.exit; the ValueError
\* of a constructor is raised outside the try of __main__ and ends the
\* process with the status 1 and a traceback.
exit_status == IF rpc = "init_raised" THEN 1 ELSE 0

\* ------------------------------------------------------- specification
\* What earlier runs leave in a unit's storage location: nothing, or the
\* folder with any of the files that the page action writes (the artifact
\* alone when save_as raised or the task was cancelled after it, empty.txt
\* beside the artifact or beside success.txt when a later run or a later
\* step found no results).
InitLocations ==
    {{}, {"dir"}, {"dir", "csv"}, {"dir", "csv", "success.txt"}, {"dir", "empty.txt"},
     {"dir", "csv", "empty.txt"}, {"dir", "csv", "success.txt", "empty.txt"}}
\* Of these, what a unit is left with that was not started, failed without
\* an artifact, succeeded, or was found empty at its first step.
PlainLocations == {{}, {"dir"}, {"dir", "csv", "success.txt"}, {"dir", "empty.txt"}}

\* The storage location of a key before any run: the location of the blank
\* EID of the miscited script is miscited_downloads itself, which the
\* script creates when it is imported.
EmptyLocation(st, k) == IF st = "miscited" /\ k = Blank THEN {"dir"} ELSE {}

\* The keys whose storage location a task of the run can read or write.
LocatedKeys ==
    IF stage = "miscited" THEN Named(upstream) \ {None}
    ELSE Named(upstream) \cap Names

\* Upstream rows: every sequence of at most MaxUnits keys, a key possibly
\* listed more than once.  Names are interchangeable, so they are named in
\* the order of their first row; a location no row names is never touched
\* and starts as it is before any run.
KeyOrder == <<"x", "y", "z">>
KeyRank(k) == CHOOSE r \in 1..Len(KeyOrder) : KeyOrder[r] = k
FirstUse(u) ==
    \A i \in 1..Len(u) :
        \A r \in 1..(KeyRank(u[i]) - 1) : \E j \in 1..(i - 1) : u[j] = KeyOrder[r]
Upstreams ==
    {u \in UNION {[1..n -> Keys] : n \in 0..MaxUnits} :
        FirstUse(SelectSeq(u, LAMBDA k : k \in Names))}

\* What an earlier run leaves as a record's Title in eid_with_titles.csv:
\* no record, an empty Title, "Error", or a title it fetched.
InitTitles == {"norecord", "", "Error", "T0"}
\* Records of the earlier output that carry an empty or "Error" Title.
MaxStaleTitles == 1

\* "self.last_relogin_time = 0.0" of LoginManager.__init__.
fresh_last_relogin_time_is_start == StartTime
fresh_last_relogin_time == 0

\* The rows of the input of the references script that can be the first to
\* lack Title or Link: those that hold their EID, with no row without EID
\* before them (the discovery ends at the first row that raises).  The
\* other scripts do not strip the Title: miscited hands it to query_parser,
\* which takes None, citing and the title script do not read it.
ShortRows(u) ==
    {0} \cup {i \in 1..Len(u) : \A j \in 1..i : u[j] # None}

\* An input that holds a row with a blank EID has at most this many rows;
\* a row without EID stands at any place of an input of any length.
MaxRowsWithBlank == 2

InitProcess ==
    /\ MAX_CONCURRENCY \in 1..MaxCeiling
    /\ credentials \in BOOLEAN
    /\ input_present \in BOOLEAN
    /\ eid_column \in (IF stage = "titles" /\ input_present THEN BOOLEAN ELSE {TRUE})
    /\ upstream \in (IF input_present THEN Upstreams ELSE {<<>>})
    /\ short_row \in (IF stage = "references" THEN ShortRows(upstream) ELSE {0})
    /\ Len(upstream) > MaxRowsWithBlank => Blank \notin Named(upstream)
    /\ all_pairs = <<>>
    /\ rpc = "start"
    /\ chunk_start = 0
    /\ status_csv = <<>>
    /\ nsnap = 0
    /\ sem = 0
    /\ tpc = [i \in 1..MaxUnits |-> "none"]
    /\ page = [i \in 1..MaxUnits |-> "none"]
    /\ res = [i \in 1..MaxUnits |-> "none"]
    /\ relogin_lock = {}
    /\ last_relogin_time = fresh_last_relogin_time
    /\ now = StartTime
    /\ lpc = [c \in Callers |-> "idle"]
    /\ cookie_file \in BOOLEAN
    /\ cookie_list \in (IF cookie_file THEN BOOLEAN ELSE {FALSE})
    /\ playwright_cookies = 0
    /\ attempt = [i \in 1..MaxUnits |-> 0]
    /\ last_status = [i \in 1..MaxUnits |-> "None"]
    /\ response = [i \in 1..MaxUnits |-> "none"]
    /\ output_data_dict = [k \in Keys |-> "norecord"]
    /\ dict_order = <<>>

\* cookies.json of an earlier run is there at the start of a browser script
\* only for inputs of at most MaxRowsOldCookies rows (the script logs in
\* anew and reads the old file only when that login captured no cookies),
\* and a cookies.json that does not load is there at the start of the title
\* script only for inputs of at most MaxRowsCutCookies rows.
MaxRowsOldCookies == 1
MaxRowsCutCookies == 1

\* The inputs of the browser scripts are kept small where they are long:
\* an input of more than MaxRowsEveryCeiling rows is run under the ceiling
\* MaxCeiling, one of more than MaxRowsOddLocations rows over locations that
\* are plain.
MaxRowsEveryCeiling == 2
MaxRowsOddLocations == 2
StartLocations ==
    IF Len(upstream) > MaxRowsOddLocations THEN PlainLocations ELSE InitLocations

\* One run of a browser script.  Its discovery reads a row of a csv without
\* an EID column with row.get("EID", ""), as a row with a blank EID.
Init ==
    /\ stage \in BrowserStages
    /\ InitProcess
    /\ Len(upstream) > MaxRowsOldCookies => ~cookie_file
    /\ Len(upstream) > MaxRowsEveryCeiling => MAX_CONCURRENCY = MaxCeiling
    /\ \E g \in [LocatedKeys -> StartLocations] :
          /\ \A k \in LocatedKeys : EmptyLocation(stage, k) \subseteq g[k]
          /\ fs = [k \in Keys |-> IF k \in LocatedKeys THEN g[k]
                                   ELSE EmptyLocation(stage, k)]
    /\ fs0 = fs
    /\ output_file = [k \in Keys |-> "norecord"]
    /\ output_shadowed = "norecord"

\* The inputs of the title script are kept small where its workers
\* overlap: an input of more than MaxRowsOverlapping rows is run under the
\* ceiling 1 and over an earlier output without stale records, an input
\* with a blank or None row is run under the ceiling 1 and, when it has more
\* than MaxRowsBlankCredentials rows, without the credentials (every login
\* raises), and cookies.json is absent at the start only for inputs of at
\* most MaxRowsWithoutCookies rows.
MaxRowsOverlapping == 2
MaxRowsWithoutCookies == 1
MaxRowsBlankCredentials == 1

\* The EID fields of the records that the earlier output holds for the rows
\* of the input: a row without EID was saved with an empty EID field.
RecordedKeys ==
    (Named(upstream) \cap Names)
      \cup (IF Named(upstream) \cap EmptyKeys # {} THEN {Blank} ELSE {})

\* One run of the title script.
InitTitleScript ==
    /\ stage = "titles"
    /\ InitProcess
    /\ Len(upstream) > MaxRowsOverlapping => MAX_CONCURRENCY = 1
    /\ Named(upstream) \subseteq Names \/ MAX_CONCURRENCY = 1
    /\ Named(upstream) \subseteq Names \/ Len(upstream) <= MaxRowsBlankCredentials
          \/ ~credentials
    /\ Len(upstream) > MaxRowsWithoutCookies => cookie_file
    /\ Len(upstream) > MaxRowsCutCookies => (cookie_file => cookie_list)
    /\ fs = [k \in Keys |-> {}]
    /\ fs0 = fs
    /\ output_file \in {f \in [Keys -> InitTitles] :
                            /\ \A k \in Keys \ RecordedKeys : f[k] = "norecord"
                            /\ Cardinality({k \in Keys : f[k] \in {"", "Error"}})
                                 <= (IF Len(upstream) > MaxRowsOverlapping
                                     THEN 0 ELSE MaxStaleTitles)}
    /\ output_shadowed \in (IF output_file[Blank] = "norecord" THEN {"norecord"}
                            ELSE InitTitles)

Next ==
    \/ run_start
    \/ login_and_get_context
    \/ \E c \in Callers : relogin_and_reload_cookies(c)
    \/ \E c \in Callers : playwright_login(c)
    \/ \E c \in Callers : playwright_login_close(c)
    \/ run_abort_exit
    \/ run_first_chunk
    \/ run_chunk_done
    \/ run_final
    \/ gather_raises
    \/ run_cancelled
    \/ \E i \in Entries : scrape_single_pair_enter(i)
    \/ \E i \in Entries : scrape_single_pair_new_page(i)
    \/ \E i \in Entries : scrape_single_pair_goto(i)
    \/ \E i \in Entries : page_close(i)
    \/ \E i \in Entries : scrape_single_eid_probe(i)
    \/ \E i \in Entries : scrape_references_count(i)
    \/ \E i \in Entries : scrape_references_close(i)
    \/ \E i \in Entries : scrape_single_pair_export(i)
    \/ \E i \in Entries : scrape_single_pair_save_as(i)
    \/ \E i \in Entries : scrape_single_pair_no_results(i)

Spec == Init /\ [][Next]_vars

\* The event loop runs a coroutine that is ready, and the remote side and
\* the browser answer every call that has a time limit: a step that can be
\* taken is taken in the end.  A run that aborted has returned unless the
\* exit of the context manager raises, which no schedule brings about.
SpecFair == Init /\ [][Next]_vars /\ WF_vars(Next /\ rpc # "aborted")

NextTitles ==
    \/ run_titles
    \/ ensure_logged_in
    \/ ensure_logged_in_close
    \/ \E c \in Callers : relogin_and_reload_cookies(c)
    \/ \E c \in Callers : playwright_login(c)
    \/ \E c \in Callers : playwright_login_close(c)
    \/ Tick
    \/ \E i \in Entries : async_fetch_title_enter(i)
    \/ \E i \in Entries : async_fetch_title(i)
    \/ \E i \in Entries : async_fetch_title_sleep(i)
    \/ scrape_titles_chunk_done

SpecTitles == InitTitleScript /\ [][NextTitles]_vars

\* The title script under the fair schedule (every request has a timeout
\* and the login ends by returning or raising), run with the credentials
\* set and two permits over inputs without a blank row and with no earlier
\* output.
InitTitlesFair ==
    /\ InitTitleScript
    /\ credentials
    /\ MAX_CONCURRENCY = MaxCeiling
    /\ Named(upstream) \subseteq Names
    /\ output_file = [k \in Keys |-> "norecord"]
    /\ output_shadowed = "norecord"

SpecTitlesFair == InitTitlesFair /\ [][NextTitles]_vars /\ WF_vars(NextTitles)

\* One run of any of the four scripts.
InitStages == Init \/ InitTitleScript

NextStages ==
    \/ run_start
    \/ login_and_get_context
    \/ run_abort_exit
    \/ run_first_chunk
    \/ run_chunk_done
    \/ run_final
    \/ gather_raises
    \/ run_cancelled
    \/ \E i \in Entries : scrape_single_pair_enter(i)
    \/ \E i \in Entries : scrape_single_pair_new_page(i)
    \/ \E i \in Entries : scrape_single_pair_goto(i)
    \/ \E i \in Entries : page_close(i)
    \/ \E i \in Entries : scrape_single_eid_probe(i)
    \/ \E i \in Entries : scrape_references_count(i)
    \/ \E i \in Entries : scrape_references_close(i)
    \/ \E i \in Entries : scrape_single_pair_export(i)
    \/ \E i \in Entries : scrape_single_pair_save_as(i)
    \/ \E i \in Entries : scrape_single_pair_no_results(i)
    \/ run_titles
    \/ ensure_logged_in
    \/ ensure_logged_in_close
    \/ \E c \in Callers : relogin_and_reload_cookies(c)
    \/ \E c \in Callers : playwright_login(c)
    \/ \E c \in Callers : playwright_login_close(c)
    \/ Tick
    \/ \E i \in Entries : async_fetch_title_enter(i)
    \/ \E i \in Entries : async_fetch_title(i)
    \/ \E i \in Entries : async_fetch_title_sleep(i)
    \/ scrape_titles_chunk_done

SpecStages == InitStages /\ [][NextStages]_vars

\* ----------------------------------------------------------- properties
Markers == {"success.txt", "empty.txt"}

\* The unit had a marker when the run started.
Marked0(k) == fs0[k] \cap Markers # {}

\* Session bootstrap succeeded: run() got its context and created tasks.
Bootstrapped == rpc \in {"gather", "close", "done"} /\ N > 0

\* The task of entry i went past the folder test to the page action.
Invoked(i) == tpc[i] \in InSection \/ res[i] \in {"success", "empty", "fail"}

\* The chunk (0-based) of entry i, and the number of chunks.
ChunkOf(i) == (i - 1) \div CHUNK_SIZE
NumChunks == (N + CHUNK_SIZE - 1) \div CHUNK_SIZE

\* The run is at rest: no step of it is possible any more.
AtRest == ~ENABLED NextStages

\* Worker tasks were created in this run.
TasksCreated == \E i \in 1..MaxUnits : tpc[i] # "none"

\* Positions of a caller under the refresh lock: in the login, and in the
\* finally of the login (after its try ended normally or by an exception).
LoginSection == {"login", "close", "close_exc"}

\* The EID field under which save_output_csv writes the record of key k.
FileKey(k) == IF k = None THEN Blank ELSE k

\* The Titles of the rows of eid_with_titles.csv with the EID field k.
RowTitles(file, shadowed, k) ==
    ({file[k]} \cup (IF k = Blank THEN {shadowed} ELSE {})) \ {"norecord"}
\* The number of those rows.
RowCount(file, shadowed, k) ==
    (IF file[k] # "norecord" THEN 1 ELSE 0)
      + (IF k = Blank /\ shadowed # "norecord" THEN 1 ELSE 0)

\* The ledger of the run started as it is before any run.
EmptyLedger == \A k \in Keys : fs0[k] = EmptyLocation(stage, k)

\* C1: in every script the number of worker tasks inside the
\* semaphore-guarded section never exceeds the script's ceiling, however
\* many units were discovered.
C1_InFlightWithinCeiling == Cardinality(InFlight) <= MAX_CONCURRENCY

\* C1 happens: the section is full and a further task of the chunk waits.
C1_Witness ==
    /\ Cardinality(InFlight) = MAX_CONCURRENCY
    /\ N > MAX_CONCURRENCY
    /\ \E i \in Entries : tpc[i] = "wait"

\* C2: a task that finds success.txt or empty.txt in its unit's location
\* returns without opening a page and without touching the ledger; a unit
\* marked when the run started keeps its files, and the snapshots report
\* the status it had before the run.
C2_Skip_Step ==
    \A i \in 1..MaxUnits :
        (/\ stage \in BrowserStages
         /\ tpc[i] = "wait"
         /\ tpc'[i] \notin {"wait", "cancelled"}
         /\ fs[all_pairs[i]] \cap Markers # {})
        => (fs' = fs /\ page' = page /\ tpc'[i] = "done" /\ res'[i] = "skipped")

C2_Skip_State ==
    \A i \in Entries :
        Marked0(all_pairs[i]) =>
            /\ fs[all_pairs[i]] = fs0[all_pairs[i]]
            /\ page[i] = "none"
            /\ ~Invoked(i)
            /\ nsnap > 0 =>
                 status_csv[i] = <<all_pairs[i],
                                   IF "success.txt" \in fs0[all_pairs[i]]
                                   THEN "success" ELSE "empty">>

C2_MarkedUnitsSkipped == [](C2_Skip_State) /\ [][C2_Skip_Step]_vars

\* C2 happens: a unit that had empty.txt was examined and skipped, and the
\* run's last snapshot was written.
C2_Witness ==
    /\ rpc = "done"
    /\ \E i \in Entries :
         /\ "empty.txt" \in fs0[all_pairs[i]]
         /\ res[i] = "skipped"
         /\ status_csv[i][2] = "empty"

\* C3: when the run comes to rest after a successful bootstrap, every
\* discovered unit whose location existed without a marker at the start has
\* had its page action invoked (citing and miscited scripts).
C3_FailedUnitsRetried ==
    (AtRest /\ Bootstrapped /\ stage \in {"citing", "miscited"}) =>
        \A i \in Entries :
            ("dir" \in fs0[all_pairs[i]] /\ ~Marked0(all_pairs[i])) =>
                \E j \in Entries : all_pairs[j] = all_pairs[i] /\ Invoked(j)

\* C4: a task of a chunk exists only when every task of the earlier chunks
\* is done and the snapshots of the earlier chunks were written.
C4_ChunkBarrier ==
    \A i \in Entries :
        tpc[i] # "none" =>
            /\ \A j \in Entries : ChunkOf(j) < ChunkOf(i) => tpc[j] = "done"
            /\ nsnap >= ChunkOf(i)

\* C4 happens: a task of the second chunk is at its page action.
C4_Witness ==
    /\ N > CHUNK_SIZE
    /\ tpc[CHUNK_SIZE + 1] \in InSection
    /\ nsnap = 1

\* C5: an exception or timeout of a page action ends that task only: the
\* step changes no other task and not run().  A task ends by an exception
\* only before its page action (a row without EID in the miscited script),
\* so run() is never left by the exception of a page action,
C5_Contained_Step ==
    \A i \in 1..MaxUnits :
        (res[i] = "none" /\ res'[i] \in {"fail", "error"}) =>
            /\ rpc' = rpc
            /\ \A j \in 1..MaxUnits \ {i} : tpc'[j] = tpc[j] /\ res'[j] = res[j]

\* ... and a run in which a page action failed, no download hangs and no
\* task raised comes to rest only with every task done and the snapshot of
\* every chunk written.
C5_Contained_State ==
    /\ \A i \in Entries : tpc[i] = "raised" => (all_pairs[i] = None /\ ~Invoked(i))
    /\ rpc = "unwinding" => \E i \in Entries : tpc[i] = "raised"
    /\ (/\ AtRest
        /\ \E i \in Entries : res[i] = "fail"
        /\ \A i \in Entries : tpc[i] \notin {"hung", "raised"}) =>
          /\ \A i \in Entries : tpc[i] = "done"
          /\ rpc \in {"done", "crashed"}
          /\ nsnap >= NumChunks
          /\ rpc = "done" => nsnap = NumChunks + 1

C5_FailureContained == [](C5_Contained_State) /\ [][C5_Contained_Step]_vars

\* C6: a snapshot leaves in status.csv exactly one row for every discovered
\* unit, with the status derived from the unit's location at that instant.
C6_Snapshot_Step ==
    nsnap' # nsnap =>
        /\ \A k \in Named(all_pairs') :
             Cardinality({r \in DOMAIN status_csv' : status_csv'[r][1] = k}) = 1
        /\ \A r \in DOMAIN status_csv' :
             status_csv'[r][2] = outcome_of(fs'[status_csv'[r][1]])

C6_OneRowPerUnit == [][C6_Snapshot_Step]_vars

\* C7: in a run that started from a ledger with at most one marker in every
\* location, no unit's location ever holds both success.txt and empty.txt.
C7_MarkersExclusive ==
    (\A k \in Keys : ~(Markers \subseteq fs0[k])) =>
        \A k \in Keys : ~(Markers \subseteq fs[k])

\* C8: a page action that ended in a failure, an exception or a timeout
\* leaves the unit's location in place without a marker, and the final
\* snapshot reports fail.
C8_FailureLeavesNoMarker ==
    \A i \in Entries :
        (stage \in BrowserStages /\ res[i] = "fail") =>
            /\ "dir" \in fs[all_pairs[i]]
            /\ fs[all_pairs[i]] \cap Markers = {}
            /\ rpc = "done" => status_csv[i][2] = "fail"

\* C9: a run that started from an empty ledger and went through all its
\* chunks leaves a status.csv that lists the discovered units in discovery
\* order, with success for a unit whose page action delivered the artifact
\* and empty for a unit whose page action reported no results.
UnitOutcomes(k) == {res[j] : j \in {e \in Entries : all_pairs[e] = k}}

\* run() has returned, or was left by an exception after its last chunk.
AllChunksDone ==
    \/ rpc = "done"
    \/ /\ rpc = "crashed"
       /\ N > 0
       /\ nsnap = NumChunks
       /\ \A i \in Entries : tpc[i] = "done"

C9_FinalSnapshot ==
    (stage \in BrowserStages /\ AllChunksDone /\ EmptyLedger) =>
        /\ Len(status_csv) = N
        /\ \A i \in Entries :
             /\ status_csv[i][1] = all_pairs[i]
             /\ UnitOutcomes(all_pairs[i]) \subseteq {"success", "skipped"}
                  => status_csv[i][2] = "success"
             /\ UnitOutcomes(all_pairs[i]) \subseteq {"empty", "skipped"}
                  => status_csv[i][2] = "empty"

\* C9 happens: x delivered its artifact, y reported no results, and the run
\* ended.
C9_Witness ==
    /\ rpc = "done"
    /\ EmptyLedger
    /\ N >= 2
    /\ all_pairs[1] # all_pairs[2]
    /\ res[1] = "success"
    /\ res[2] = "empty"
    /\ status_csv[1] = <<all_pairs[1], "success">>
    /\ status_csv[2] = <<all_pairs[2], "empty">>

\* C10: at most one caller of relogin_and_reload_cookies is inside the
\* section that runs playwright_login and reloads the cookies.
C10_SingleLogin == Cardinality({c \in Callers : lpc[c] \in LoginSection}) <= 1

\* C10 happens: one worker is inside the login, its cookies captured and
\* the browser not yet closed, while another waits for the lock.
C10_Witness ==
    \E c, d \in Callers :
        /\ c # d
        /\ lpc[c] = "close"
        /\ playwright_cookies > 0
        /\ lpc[d] = "want"

\* C11: a call of relogin_and_reload_cookies that gets the lock less than
\* relogin_cooldown after the last completed refresh returns without a
\* login and leaves the credentials, the cookie file, last_relogin_time and
\* the lock as they were; a login is entered only when the cooldown has
\* passed.  While the cooldown of a completed refresh runs no step captures
\* cookies, writes cookies.json or stamps last_relogin_time, and the stamp
\* is the time at which a login that ran to the end of its try returns.
C11_Cooldown_Step ==
    /\ \A c \in Callers :
          /\ (lpc[c] = "want" /\ lpc'[c] # "want") => lpc'[c] \in {"login", "idle"}
          /\ (lpc[c] = "want" /\ lpc'[c] = "login") =>
                (now - last_relogin_time) >= relogin_cooldown
          /\ (lpc[c] = "want" /\ lpc'[c] = "idle") =>
                /\ (now - last_relogin_time) < relogin_cooldown
                /\ UNCHANGED <<playwright_cookies, cookie_file, cookie_list, last_relogin_time,
                               relogin_lock>>
    /\ (now - last_relogin_time) < relogin_cooldown =>
          UNCHANGED <<playwright_cookies, cookie_file, cookie_list, last_relogin_time>>
    /\ last_relogin_time' # last_relogin_time =>
          /\ last_relogin_time' = now
          /\ \E c \in Callers : lpc[c] = "close" /\ lpc'[c] = "idle"

C11_CooldownNoOp == [][C11_Cooldown_Step]_vars

\* C11 happens: a login was completed at this very time, the lock is free
\* and a worker that asked for a refresh meanwhile is about to get it: the
\* only step its call can take is the return without a login.
C11_Witness ==
    \E c \in Callers :
        /\ c > 0
        /\ lpc[c] = "want"
        /\ relogin_lock = {}
        /\ last_relogin_time = now
        /\ playwright_cookies > 0
        /\ ENABLED (relogin_and_reload_cookies(c) /\ lpc'[c] = "idle")
        /\ ~ENABLED (relogin_and_reload_cookies(c) /\ lpc'[c] = "login")

\* C12: in the title script every attempt that observes HTTP 403, the first
\* as one that follows a 403, is followed by the worker's call of
\* relogin_and_reload_cookies; when the call has returned or raised the
\* worker sleeps with its attempt unchanged, and only then the same unit is
\* tried again (or, after the last attempt, given up).  No request of the
\* worker is sent while the call is pending.
C12_Refresh_Step ==
    \A i \in 1..MaxUnits :
        /\ (tpc[i] = "fetch" /\ response'[i] = "403") =>
              /\ tpc'[i] = "relogin"
              /\ lpc'[i] = "want"
              /\ attempt'[i] = attempt[i]
        /\ (tpc[i] = "relogin" /\ tpc'[i] # "relogin") =>
              /\ lpc[i] # "idle"
              /\ lpc'[i] = "idle"
              /\ tpc'[i] = "sleep"
              /\ attempt'[i] = attempt[i]
              /\ res'[i] = res[i]
        /\ (tpc[i] = "sleep" /\ tpc'[i] # "sleep") =>
              \/ tpc'[i] = "fetch" /\ attempt'[i] = attempt[i] + 1
              \/ tpc'[i] = "done" /\ attempt[i] = MaxAttempts /\ res'[i] = "Error"
        /\ (tpc'[i] = "fetch" /\ tpc[i] # "fetch") => tpc[i] \in {"wait", "sleep"}

C12_Refresh_State ==
    \A i \in 1..MaxUnits :
        /\ (tpc[i] = "relogin") <=> (lpc[i] # "idle")
        /\ response[i] = "403" => tpc[i] \in {"relogin", "sleep"}
        /\ tpc[i] = "fetch" => response[i] = "none"

C12_RefreshBeforeRetry == [](C12_Refresh_State) /\ [][C12_Refresh_Step]_vars

\* C12 happens: a worker whose attempt saw 403 is at a later attempt of the
\* same unit, its refresh call behind it.
C12_Witness ==
    \E i \in Entries :
        /\ stage = "titles"
        /\ tpc[i] = "fetch"
        /\ last_status[i] = "403"
        /\ attempt[i] >= 3
        /\ lpc[i] = "idle"
        /\ playwright_cookies > 0

\* The HTTP attempts that the workers now inside their retry loops have made
\* for unit k so far (entries 1..n of the list).
RECURSIVE AttemptsInProgress(_, _)
AttemptsInProgress(k, n) ==
    IF n = 0 THEN 0
    ELSE AttemptsInProgress(k, n - 1)
         + (IF n <= N /\ all_pairs[n] = k THEN attempt[n] ELSE 0)

\* C13: in the title script no unit gets more than 5 HTTP attempts in a
\* run, and every retry loop ends with a result: when the run is at rest no
\* worker is left inside its loop.
C13_AttemptCeiling ==
    stage = "titles" =>
        /\ \A k \in Keys : AttemptsInProgress(k, MaxUnits) <= MaxAttempts
        /\ AtRest => \A i \in Entries : tpc[i] \notin {"fetch", "relogin", "sleep"}

\* C14: in the title script a unit whose attempts are used up fails alone.
\* The step that returns "Error" changes nothing but that worker: the run
\* stays in its gather and no other worker or the output file is touched.
C14_Exhaust_Step ==
    stage = "titles" =>
        \A i \in Entries :
            (tpc[i] \in {"fetch", "relogin", "sleep"} /\ tpc'[i] = "done"
             /\ res'[i] = "Error")
            => /\ rpc = "gather" /\ rpc' = "gather"
               /\ output_file' = output_file
               /\ \A j \in Entries \ {i} : tpc'[j] = tpc[j] /\ res'[j] = res[j]

\* ... a record left with the title "Error" by an earlier run is on the
\* list of rows to fetch when the run reads its input,
C14_Refetch_Step ==
    (stage = "titles" /\ rpc \in {"start", "ensure_close"} /\ rpc' \in {"gather", "done"}
     /\ input_present)
    => \A u \in 1..Len(upstream) :
           output_file[upstream[u]] = "Error"
           => \E i \in 1..Len(all_pairs') : all_pairs'[i] = upstream[u]

\* ... and the run goes on to its end: it never crashes after a failure, and
\* at rest every listed unit has been processed, the output holds the failed
\* unit's row with the title "Error", and the unit is on the list of rows to
\* fetch of a run that reads the output next.
C14_Exhaust_State ==
    (stage = "titles" /\ \E i \in Entries : res[i] = "Error")
    => /\ rpc \in {"gather", "done"}
       /\ AtRest =>
            /\ rpc = "done"
            /\ \A i \in Entries : tpc[i] = "done"
            /\ \A i \in Entries :
                 (res[i] = "Error" /\ \A j \in Entries : all_pairs[j] = all_pairs[i] => j <= i)
                 => /\ "Error" \in RowTitles(output_file, output_shadowed,
                                             FileKey(all_pairs[i]))
                    /\ all_pairs[i] \in Named(rows_to_process(output_file))

C14_ExhaustionContained ==
    [](C14_Exhaust_State) /\ [][C14_Exhaust_Step /\ C14_Refetch_Step]_vars

\* C15: when the bootstrap of the session fails (async_playwright, the
\* browser or the context cannot be had, the login raises, the cookies
\* cannot be added, or ensure_logged_in of the title script raises) the run
\* ends with no unit started: no worker task, no page, no outcome, no
\* location or marker created, nothing written and nothing fetched (the
\* title script holds at most the records it loaded).
BootstrapPositions ==
    {"launch", "relogin", "add_cookies", "ensure_login", "ensure_close",
     "ensure_close_exc"}

NoUnitStarted(tasks, pages, results, ledger, writes, csv, dict, file) ==
    /\ \A i \in 1..MaxUnits :
          tasks[i] = "none" /\ pages[i] = "none" /\ results[i] = "none"
    /\ ledger = fs0
    /\ writes = 0
    /\ csv = <<>>
    /\ dict \in {[k \in Keys |-> "norecord"], file}

C15_Abort_Step ==
    (rpc \in BootstrapPositions \cup {"aborted"} /\ rpc' \in {"aborted", "crashed"}) =>
        /\ NoUnitStarted(tpc', page', res', fs', nsnap', status_csv', output_data_dict',
                         output_file')
        /\ output_file' = output_file

C15_Abort_State ==
    rpc \in BootstrapPositions \cup {"aborted"} =>
        NoUnitStarted(tpc, page, res, fs, nsnap, status_csv, output_data_dict,
                      output_file)

C15_BootstrapFailureAborts == [](C15_Abort_State) /\ [][C15_Abort_Step]_vars

\* A browser script found all its units, logged in, and then could not add
\* the cookies to the context.
C15_Witness ==
    /\ stage \in BrowserStages
    /\ rpc = "aborted"
    /\ N = MaxUnits
    /\ playwright_cookies > 0
    /\ \E k \in Keys : fs[k] = {}

\* C16: a fatal bootstrap failure is reported as a critical error and the
\* process ends with a nonzero exit status.
C16_FatalExitStatus ==
    rpc \in {"aborted", "crashed"} => critical_logged /\ exit_status # 0

\* C17: with the discovery root or the input file absent the run is a
\* no-op: nothing is discovered, no login is attempted, no context is
\* acquired, no unit is processed and nothing is written.
C17_AbsentInputNoOp ==
    ~input_present =>
        /\ all_pairs = <<>>
        /\ rpc \in {"start", "done"}
        /\ \A c \in Callers : lpc[c] = "idle"
        /\ playwright_cookies = 0
        /\ \A i \in 1..MaxUnits : tpc[i] = "none"
        /\ nsnap = 0

\* C18: discovery skips the rows whose unit key is missing or blank: no
\* unit with such a key is on the list of units, is worked on, gets a
\* storage location, a row in status.csv or a record in the title output.
C18_Blank_State ==
    /\ \A i \in Entries : all_pairs[i] \notin {Blank, None}
    /\ fs[Blank] = fs0[Blank] /\ fs[None] = fs0[None]
    /\ \A r \in 1..Len(status_csv) : status_csv[r][1] \notin {Blank, None}

C18_Blank_Step ==
    /\ output_file'[Blank] = output_file[Blank]
    /\ output_shadowed' = output_shadowed

C18_BlankKeysSkipped == [](C18_Blank_State) /\ [][C18_Blank_Step]_vars

\* C19: a browser run that passed its bootstrap over n > 0 units rewrites
\* status.csv once after every chunk and once more at its end.  Every write
\* replaces the file by one row per listed unit and comes after all tasks
\* up to the current chunk are done,
C19_Snapshot_Step ==
    (stage \in BrowserStages /\ nsnap' # nsnap) =>
        /\ nsnap' = nsnap + 1
        /\ Len(status_csv') = N
        /\ \A i \in Entries : status_csv'[i][1] = all_pairs[i]
        /\ \A i \in Entries : i <= chunk_start + CHUNK_SIZE => tpc[i] = "done"
        /\ rpc' = "done" => \A i \in Entries : tpc[i] = "done"

\* ... and the writes are counted by the chunks: as many as chunks are
\* finished while the run is in its loop, ceil(n / CHUNK_SIZE) when the loop
\* is left and ceil(n / CHUNK_SIZE) + 1 when the run has ended, by its
\* return as by an exception.
C19_Snapshot_State ==
    (stage \in BrowserStages /\ N > 0) =>
        /\ rpc \in {"launch", "relogin", "add_cookies", "aborted"} => nsnap = 0
        /\ rpc = "gather" => nsnap * CHUNK_SIZE = chunk_start
        /\ rpc = "close" => nsnap = NumChunks
        /\ (rpc \in {"done", "crashed"} /\ TasksCreated) => nsnap = NumChunks + 1

C19_SnapshotCount == [](C19_Snapshot_State) /\ [][C19_Snapshot_Step]_vars

\* C20: a storage location that exists is there after every step: no skip,
\* re-processing, failure or snapshot removes it.
C20_Location_Step ==
    \A k \in Keys : "dir" \in fs[k] => "dir" \in fs'[k]

C20_LocationNeverDeleted == [][C20_Location_Step]_vars

\* A finished run in which a unit with markers was skipped and a unit whose
\* location an earlier run had left without a marker was worked on again
\* and failed; both locations are still there.
C20_Witness ==
    /\ rpc = "done"
    /\ nsnap > 0
    /\ \E i, j \in Entries :
         /\ fs0[all_pairs[i]] = {"dir"}
         /\ res[i] = "fail"
         /\ "dir" \in fs[all_pairs[i]]
         /\ res[j] = "skipped"
         /\ "dir" \in fs[all_pairs[j]]

\* C21: in the browser scripts a worker that found the session rejected
\* (its page shows the login form) has a refresh of the credentials asked
\* for or made by the time its task ends.
C21_Refresh_Step ==
    stage \in BrowserStages =>
        \A i \in Entries :
            (page[i] = "login_page" /\ tpc'[i] = "done")
            => \/ \E c \in Callers : lpc'[c] # "idle"
               \/ playwright_cookies' > 1

C21_MidRunRefresh == [][C21_Refresh_Step]_vars

\* C22: every call of relogin_and_reload_cookies that returns gives its
\* caller a bundle of credentials: the bundle of the login it made, or,
\* when the cooldown skipped the login, the bundle of the last refresh.
C22_Return_Step ==
    \A c \in Callers :
        /\ (lpc[c] = "want" /\ lpc'[c] = "idle") => skip_return = "cookies"
        /\ (lpc[c] = "close" /\ lpc'[c] = "idle" /\ last_relogin_time' = now)
             => login_return = "cookies"

C22_RefreshYieldsCredentials == [][C22_Return_Step]_vars

\* C23: in every state a location that holds success.txt holds the fetched
\* file <UnitKey>.csv as well: the artifact is saved before the marker is
\* written.
C23_ArtifactBeforeMarker ==
    \A k \in Keys : "success.txt" \in fs[k] => "csv" \in fs[k]

\* Between the two writes: a worker has saved its artifact and not yet
\* written the marker, while another unit, new in this run, has both.
C23_Witness ==
    \E i, j \in Entries :
        /\ tpc[i] = "mark"
        /\ "csv" \in fs[all_pairs[i]]
        /\ "success.txt" \notin fs[all_pairs[i]]
        /\ res[j] = "success"
        /\ fs0[all_pairs[j]] = {}
        /\ {"csv", "success.txt"} \subseteq fs[all_pairs[j]]

\* The workers whose download wait never returns.
Hung == {i \in Entries : tpc[i] = "hung"}

\* C24: in the citing script a worker whose download wait never completes
\* stays in it: it keeps its permit, the run stays in the gather of that
\* chunk, no task of a later chunk is created and status.csv is not written
\* again,
C24_Hang_Step ==
    Hung # {} =>
        /\ Hung \subseteq {i \in Entries : tpc'[i] = "hung"}
        /\ rpc' = "gather"
        /\ chunk_start' = chunk_start
        /\ nsnap' = nsnap /\ status_csv' = status_csv
        /\ \A j \in Entries \ Chunk(chunk_start) : tpc'[j] = tpc[j]

\* ... while the other units of the chunk go on as long as a permit is left.
C24_Hang_State ==
    Hung # {} =>
        /\ stage = "citing" /\ rpc = "gather"
        /\ Hung \subseteq Chunk(chunk_start)
        /\ sem <= MAX_CONCURRENCY - Cardinality(Hung)
        /\ \A j \in Chunk(chunk_start) :
             (tpc[j] = "wait" /\ sem > 0) => ENABLED scrape_single_pair_enter(j)
        /\ \A j \in Entries : j > chunk_start + CHUNK_SIZE => tpc[j] = "none"

C24_HungDownloadBlocksRun == [](C24_Hang_State) /\ [][C24_Hang_Step]_vars

\* The run has come to rest with the first worker in its download wait; the
\* second unit of the chunk got its result on the other permit, and the
\* unit of the next chunk was never started.
C24_Witness ==
    /\ AtRest
    /\ N = MaxUnits
    /\ MAX_CONCURRENCY = 2
    /\ tpc[1] = "hung"
    /\ tpc[2] = "done" /\ res[2] = "success"
    /\ tpc[N] = "none"
    /\ sem = 1
    /\ nsnap = 0

\* C25: a write of status.csv (or of the title output) happens with no
\* worker task on its way: every task created so far is done, the write
\* itself creates no location, marker or artifact, and it is one step of
\* run(), the only writer.
C25_Snapshot_Step ==
    nsnap' # nsnap =>
        /\ \A i \in 1..MaxUnits : tpc[i] \in {"none", "done"}
        /\ fs' = fs
        /\ nsnap' > nsnap
        /\ rpc \in {"gather", "close"}

C25_SnapshotAlone == [][C25_Snapshot_Step]_vars

\* A snapshot has been written between two chunks: the tasks of the first
\* chunk are done, in part with new markers, and those of the second are
\* created and not yet started.
C25_Witness ==
    /\ stage \in BrowserStages
    /\ rpc = "gather"
    /\ nsnap = 1
    /\ chunk_start = CHUNK_SIZE
    /\ \A i \in Entries : tpc[i] = IF i <= CHUNK_SIZE THEN "done" ELSE "wait"
    /\ \E i \in Entries : res[i] = "success"
    /\ Len(status_csv) = N

\* The entries whose task is created by this step.
Spawned == {i \in 1..MaxUnits : tpc[i] = "none" /\ tpc'[i] # "none"}

\* C26: the chunks are the consecutive slices of CHUNK_SIZE entries of the
\* discovered list.  A step that creates tasks creates them for exactly
\* the next slice, which is not empty and is full unless it is the last,
C26_Chunk_Step ==
    /\ Spawned # {} =>
          /\ chunk_start' = (IF rpc = "gather" THEN chunk_start + CHUNK_SIZE ELSE 0)
          /\ Spawned = {i \in 1..Len(all_pairs') :
                           chunk_start' < i /\ i <= chunk_start' + CHUNK_SIZE}
          /\ \/ Cardinality(Spawned) = CHUNK_SIZE
             \/ chunk_start' + Cardinality(Spawned) = Len(all_pairs')
          /\ \A i \in Spawned : tpc'[i] = "wait"
    /\ \A i \in 1..MaxUnits :
         tpc[i] # "none" => tpc'[i] # "none" /\ (tpc'[i] = "wait" => tpc[i] = "wait")

\* ... so the entries that have a task are a prefix of the list, made of
\* whole slices, and a run that ended after its bootstrap had one task for
\* every entry.
C26_Chunk_State ==
    /\ chunk_start % CHUNK_SIZE = 0
    /\ \A i \in 1..MaxUnits :
         tpc[i] # "none" =>
            /\ i \in Entries /\ i <= chunk_start + CHUNK_SIZE
            /\ rpc \in {"gather", "unwinding", "close", "done", "crashed"}
    /\ \A i \in Entries :
         (rpc \in {"gather", "unwinding", "close", "done"} /\ i <= chunk_start + CHUNK_SIZE)
         => tpc[i] # "none"
    /\ (rpc \in {"close", "done"} /\ N > 0) => chunk_start + CHUNK_SIZE >= N /\ chunk_start < N

C26_ChunksPartition == [](C26_Chunk_State) /\ [][C26_Chunk_Step]_vars

\* The second, shorter chunk of a list of three has just been given its
\* one task.
C26_Witness ==
    /\ stage = "miscited"
    /\ rpc = "gather"
    /\ N = MaxUnits
    /\ chunk_start = CHUNK_SIZE
    /\ tpc[N] = "wait"
    /\ \A i \in 1..CHUNK_SIZE : tpc[i] = "done"

\* C27: the status written for a unit depends on its location alone, in
\* all three browser scripts: not_started iff the location is absent,
\* else success iff success.txt is there (also next to empty.txt), else
\* empty iff empty.txt is there, else fail.
C27_Status_Step ==
    (stage \in BrowserStages /\ nsnap' # nsnap) =>
        \A r \in 1..Len(status_csv') :
            LET files == fs[status_csv'[r][1]]
                status == status_csv'[r][2]
            IN /\ status \in {"not_started", "success", "empty", "fail"}
               /\ status = "not_started" <=> "dir" \notin files
               /\ status = "success" <=> ("dir" \in files /\ "success.txt" \in files)
               /\ status = "empty" <=>
                    ("dir" \in files /\ "success.txt" \notin files /\ "empty.txt" \in files)
               /\ status = "fail" <=> ("dir" \in files /\ files \cap Markers = {})

C27_StatusFromLocation == [][C27_Status_Step]_vars

\* A snapshot that met a location with both markers, reported as success,
\* and a unit of the next chunk without a location, reported as not_started.
C27_Witness ==
    /\ nsnap = 1
    /\ rpc = "gather"
    /\ \E r1, r2 \in 1..Len(status_csv) :
         /\ status_csv[r1][2] = "success"
         /\ Markers \subseteq fs[status_csv[r1][1]]
         /\ status_csv[r2][2] = "not_started"
         /\ fs[status_csv[r2][1]] = {}

\* C28: the title script fetches exactly the input rows whose EID has no
\* record, an empty Title or the Title "Error" in the existing output: the
\* list of rows to fetch is made of these rows, in input order,
C28_Select_Step ==
    (stage = "titles" /\ rpc \in {"start", "ensure_close"} /\ rpc' \in {"gather", "done"})
    => all_pairs' = SelectSeq(upstream,
                              LAMBDA k : output_file[k] \in {"norecord", "", "Error"})

\* ... requests are made for rows of that list only, and a run that came
\* to its end has a result for every one of them.
C28_Select_State ==
    stage = "titles" =>
        /\ \A i \in 1..MaxUnits : (attempt[i] > 0 \/ res[i] # "none") => i \in Entries
        /\ (rpc = "done" /\ input_present) => \A i \in Entries : res[i] # "none"

C28_GoodTitlesSkipped == [](C28_Select_State) /\ [][C28_Select_Step]_vars

\* A finished run whose input named a unit with a title from an earlier
\* run, left alone, and a unit that was fetched.
C28_Witness ==
    /\ stage = "titles"
    /\ rpc = "done"
    /\ \E u \in 1..Len(upstream) :
         /\ output_file[upstream[u]] = "T0"
         /\ \A i \in Entries : all_pairs[i] # upstream[u]
    /\ \E i \in Entries : res[i] = "T" /\ output_file[all_pairs[i]] = "T"

\* C29: the results of the title script.  "404 Not Found", the first title
\* and "Title not found" are given at once by the attempt that got the
\* response, with no refresh; a 200 response whose JSON was read never
\* sends the worker to another attempt (only one whose body is no JSON
\* does, through the refresh); a worker that ends otherwise ends after the
\* sleep of its fifth attempt and gives "Error",
C29_Result_Step ==
    stage = "titles" =>
        \A i \in Entries :
            /\ (tpc[i] \in {"fetch", "relogin", "sleep"} /\ tpc'[i] = "done") =>
                  /\ res'[i] \in {"404 Not Found", "T", "", "Title not found", "Error"}
                  /\ res'[i] # "Error" => tpc[i] = "fetch" /\ lpc' = lpc
                  /\ res'[i] = "Error" => tpc[i] = "sleep" /\ attempt[i] = MaxAttempts
                  /\ tpc[i] = "sleep" => res'[i] = "Error"
            /\ (tpc[i] = "fetch" /\ last_status[i] # "200" /\ last_status'[i] = "200") =>
                  tpc'[i] = "relogin"

\* ... and each attempt, the first as the fifth, can end the unit with any
\* of the three.
C29_Result_State ==
    stage = "titles" =>
        \A i \in Entries :
            (tpc[i] = "fetch" /\ rpc = "gather") =>
                \A t \in {"404 Not Found", "T", "Title not found"} :
                    ENABLED (async_fetch_title(i) /\ tpc'[i] = "done" /\ res'[i] = t)

C29_TitleResults == [](C29_Result_State) /\ [][C29_Result_Step]_vars

\* C30: a unit whose outcome is success or empty keeps that outcome in
\* every later state: no marker is removed and no step turns an empty unit
\* into a successful one or back.
C30_Terminal_Step ==
    \A k \in Keys :
        outcome_of(fs[k]) \in {"success", "empty"} =>
            /\ fs[k] \cap Markers \subseteq fs'[k]
            /\ outcome_of(fs'[k]) = outcome_of(fs[k])

C30_TerminalOutcomesStable == [][C30_Terminal_Step]_vars

\* C31: no two worker tasks work on the same unit at the same time, and in
\* one run the page action is invoked at most once for a unit.
C31_OneTaskPerUnit ==
    \A i, j \in Entries :
        (i # j /\ all_pairs[i] = all_pairs[j]) =>
            /\ ~(tpc[i] \in InSection /\ tpc[j] \in InSection)
            /\ ~(Invoked(i) /\ Invoked(j))

\* The pages of the shared context that are open.
OpenPages == {i \in 1..MaxUnits : page[i] \in {"open", "login_page"}}

\* C32: a task that has finished has closed its page, so the open pages are
\* those of the workers inside their page action: never more than the
\* ceiling, and none when a chunk's gather returns.
C32_PagesClosed ==
    /\ \A i \in OpenPages : tpc[i] \in InSection
    /\ Cardinality(OpenPages) <= MAX_CONCURRENCY
    /\ (rpc = "gather" /\ gather_returns) => OpenPages = {}

\* C33: at the end of a browser run that passed its bootstrap every listed
\* unit has its location, unless the mkdir of its task raised, so the last
\* status.csv has a not_started row only for such a unit: every other row
\* is success, empty or fail.
C33_NoNotStartedAtEnd ==
    (stage \in BrowserStages /\ rpc = "done" /\ N > 0) =>
        /\ Len(status_csv) = N
        /\ \A i \in Entries :
             \/ /\ "dir" \in fs[all_pairs[i]]
                /\ status_csv[i][2] \in {"success", "empty", "fail"}
             \/ /\ res[i] = "error"
                /\ "dir" \notin fs[all_pairs[i]]

\* A finished run over three new units, with no file system error, that
\* ended with one unit of each outcome.
C33_Witness ==
    /\ stage = "citing"
    /\ rpc = "done"
    /\ N = MaxUnits
    /\ EmptyLedger
    /\ \A i \in Entries : res[i] # "error"
    /\ \A o \in {"success", "empty", "fail"} : \E i \in Entries : status_csv[i][2] = o

\* C34: in the browser scripts no permit is lost.  A worker that leaves its
\* page action gives its permit back in the same step (a skip takes and
\* returns it at once),
C34_Permit_Step ==
    stage \in BrowserStages =>
        \A i \in Entries :
            /\ (tpc[i] \in InSection /\ tpc'[i] = "done") => sem' = sem + 1
            /\ (tpc[i] = "wait" /\ tpc'[i] = "done") => sem' = sem /\ sem > 0

\* ... the free permits and the workers inside the page action add up to
\* the ceiling, and when every page action has ended (no worker is left in
\* a wait that never returns) the run does not come to rest before every
\* task got its permit, every chunk is done and the last snapshot is
\* written.
C34_Permit_State ==
    stage \in BrowserStages =>
        /\ rpc = "gather" =>
              sem + Cardinality({i \in Entries : tpc[i] \in InSection}) = MAX_CONCURRENCY
        /\ (AtRest /\ Bootstrapped /\ \A i \in Entries : tpc[i] # "hung") =>
              /\ \A i \in Entries : tpc[i] = "done"
              /\ rpc = "done"
              /\ chunk_start + CHUNK_SIZE >= N
              /\ nsnap = NumChunks + 1

\* Under the fair schedule, and unless a worker stays in a wait that never
\* returns, every waiting task gets its permit and the run ends: aborted at
\* the bootstrap (or left by an exception of it or of the constructor,
\* before any task), or done with the last snapshot written.
C34_Permit_Live ==
    /\ \A i \in 1..MaxUnits : (tpc[i] = "wait") ~> (tpc[i] # "wait" \/ Hung # {})
    /\ <>(\/ Hung # {}
          \/ rpc \in {"aborted", "init_raised"}
          \/ rpc = "crashed" /\ ~TasksCreated
          \/ rpc = "done" /\ nsnap = (IF N > 0 THEN NumChunks + 1 ELSE 0))

C34_PermitsReleased ==
    [](C34_Permit_State) /\ [][C34_Permit_Step]_vars /\ C34_Permit_Live

\* With one permit only: the first worker failed, the second was skipped,
\* and the third, of the next chunk, has the permit now.
C34_Witness ==
    /\ stage \in BrowserStages
    /\ MAX_CONCURRENCY = 1
    /\ N = MaxUnits
    /\ res[1] = "fail"
    /\ res[2] = "skipped"
    /\ tpc[N] \in InSection
    /\ sem = 0

\* C35: the refresh lock is held by the caller that is logging in (up to
\* the end of the finally of the login) and by nobody else: a login that
\* raises frees it like one that returns,
C35_Lock_State ==
    relogin_lock = {c \in Callers : lpc[c] \in LoginSection}

C35_Lock_Step ==
    \A c \in Callers :
        (lpc[c] \in LoginSection /\ lpc'[c] \notin LoginSection) =>
            (lpc'[c] = "idle" /\ relogin_lock' = {})

\* ... so under the fair schedule every caller that waits for the lock gets
\* it.
C35_Lock_Live ==
    \A c \in Callers : (lpc[c] = "want") ~> (lpc[c] # "want")

C35_LockReleasedOnFailure ==
    [](C35_Lock_State) /\ [][C35_Lock_Step]_vars /\ C35_Lock_Live

\* No login has succeeded yet, one worker has been through a refresh that
\* failed and is at its next attempt, and another worker holds the lock now,
\* in the finally of a login whose try raised.
C35_Witness ==
    /\ last_relogin_time = 0
    /\ \E c, d \in Entries :
         /\ lpc[c] = "close_exc"
         /\ relogin_lock = {c}
         /\ tpc[d] = "fetch"
         /\ attempt[d] > 1
         /\ last_status[d] = "403"

\* C36: last_relogin_time is set only by a login inside
\* relogin_and_reload_cookies that went through (its try and its finally
\* ended without an exception, the cookie file is there and loads, and the caller was
\* not left with an exception); a login that fails leaves it as it was; a
\* call goes to the login unless a login that went through is less than
\* the cooldown ago, and is skipped only then.
C36_Time_Step ==
    /\ last_relogin_time' # last_relogin_time =>
          /\ last_relogin_time' = now
          /\ cookie_file' /\ cookie_list'
          /\ rpc' # "aborted"
          /\ \E c \in Callers : lpc[c] = "close" /\ lpc'[c] = "idle"
    /\ \A c \in Callers :
          /\ (lpc[c] \in {"login", "close_exc"} /\ lpc'[c] = "idle") =>
                last_relogin_time' = last_relogin_time
          /\ (lpc[c] = "want" /\ lpc'[c] = "login") =>
                now - last_relogin_time >= relogin_cooldown
          /\ (lpc[c] = "want" /\ lpc'[c] = "idle") =>
                (last_relogin_time > 0 /\ now - last_relogin_time < relogin_cooldown)

C36_TimeSetOnSuccessOnly == [][C36_Time_Step]_vars

\* Two login attempts at the same time of day: the refresh of one worker
\* failed and left last_relogin_time as it was, and the next worker that
\* got the lock is logging in again.
C36_Witness ==
    /\ now = StartTime
    /\ last_relogin_time = 0
    /\ \E c, d \in Entries :
         /\ c # d
         /\ tpc[c] = "relogin" /\ lpc[c] = "login" /\ attempt[c] = 1
         /\ tpc[d] = "fetch" /\ attempt[d] = 2 /\ last_status[d] \in {"403", "200"}

\* C37: a refresh of a title worker that fails (the login section is left
\* and last_relogin_time stays) costs that worker the attempt it was in and
\* nothing else: it sleeps and then goes on with the next attempt, or
\* returns "Error" after the fifth; the other workers, the records and
\* run() are left as they are.
C37_FailedRefresh(c) ==
    /\ lpc[c] \in LoginSection
    /\ lpc'[c] = "idle"
    /\ last_relogin_time' = last_relogin_time

C37_Contained_Step ==
    \A c \in 1..MaxUnits :
        /\ C37_FailedRefresh(c) =>
              /\ tpc'[c] = "sleep"
              /\ attempt'[c] = attempt[c]
              /\ res'[c] = res[c]
              /\ \A d \in (1..MaxUnits) \ {c} :
                    /\ tpc'[d] = tpc[d]
                    /\ attempt'[d] = attempt[d]
                    /\ last_status'[d] = last_status[d]
                    /\ res'[d] = res[d]
                    /\ lpc'[d] = lpc[d]
              /\ rpc' = rpc
              /\ output_data_dict' = output_data_dict
              /\ output_file' = output_file
        /\ (tpc[c] = "sleep" /\ tpc'[c] # "sleep") =>
              /\ IF attempt[c] < MaxAttempts
                 THEN /\ tpc'[c] = "fetch"
                      /\ attempt'[c] = attempt[c] + 1
                      /\ res'[c] = res[c]
                 ELSE /\ tpc'[c] = "done"
                      /\ res'[c] = "Error"
              /\ rpc' = rpc

\* Once the workers run, the title script ends by "done".
C37_Contained_State ==
    (stage = "titles" /\ all_pairs # <<>>) => rpc \in {"gather", "done"}

C37_RefreshFailureContained == [](C37_Contained_State) /\ [][C37_Contained_Step]_vars

\* A worker is in its fifth attempt after a 403 whose refresh failed (no
\* login has gone through), next to a sibling of its chunk that got its
\* title.
C37_Witness ==
    /\ stage = "titles"
    /\ rpc = "gather"
    /\ last_relogin_time = 0
    /\ \E c, d \in Entries :
         /\ c # d
         /\ {c, d} \subseteq Chunk(chunk_start)
         /\ tpc[c] = "fetch" /\ attempt[c] = MaxAttempts /\ last_status[c] = "403"
         /\ tpc[d] = "done" /\ res[d] = "T"

\* C38: the saved output of the title script only grows: a save drops no
\* row of the file, a row with a good Title keeps that Title, and after the
\* save that follows a chunk every unit of the chunks so far has a row with
\* a Title that a worker returned.
FetchedTitles == {"T", "", "Title not found", "404 Not Found", "Error"}

C38_Grows_Step ==
    \A k \in Keys :
        /\ RowCount(output_file', output_shadowed', k)
              >= RowCount(output_file, output_shadowed, k)
        /\ \A t \in RowTitles(output_file, output_shadowed, k) :
              GoodTitle(t) => t \in RowTitles(output_file', output_shadowed', k)

C38_Grows_State ==
    stage = "titles" =>
        \A i \in Entries :
            (i <= chunk_start \/ rpc = "done") =>
                RowTitles(output_file, output_shadowed, FileKey(all_pairs[i]))
                    \cap FetchedTitles # {}

C38_OutputOnlyGrows == [](C38_Grows_State) /\ [][C38_Grows_Step]_vars

\* C39: the first call of relogin_and_reload_cookies on a fresh
\* LoginManager (the one call of a browser script; in the title script
\* every call made before any login went through) is not skipped but goes
\* to the login under the lock, and the bootstrap of a browser script gets
\* the bundle exactly when that login went through,
C39_First_Step ==
    /\ (lpc[0] = "want" /\ lpc'[0] # "want") =>
          (lpc'[0] = "login" /\ relogin_lock' = {0})
    /\ \A c \in Callers :
          (lpc[c] = "want" /\ lpc'[c] # "want" /\ last_relogin_time < StartTime) =>
              (lpc'[c] = "login" /\ relogin_lock' = {c})
    /\ (lpc[0] \in LoginSection /\ lpc'[0] = "idle") =>
          /\ (rpc' = "add_cookies") = (last_relogin_time' = now)
          /\ rpc' = "add_cookies" => (lpc[0] = "close" /\ load_cookies_to_session)

\* ... which it can whenever the try of the login ended without an
\* exception and cookies.json is there and loads.
C39_First_State ==
    (lpc[0] = "close" /\ load_cookies_to_session) =>
        ENABLED (playwright_login_close(0) /\ rpc' = "add_cookies")

C39_FirstCallLogsIn == [](C39_First_State) /\ [][C39_First_Step]_vars

\* The bootstrap of a browser script holds the bundle of the login its
\* first call made.
C39_Witness ==
    /\ stage \in BrowserStages
    /\ rpc = "add_cookies"
    /\ lpc[0] = "idle"
    /\ playwright_cookies = 1
    /\ last_relogin_time = StartTime

====
